---- MODULE Spec2Model ----
(***************************************************************************)
(* Model of the Code Assistant Formatter core: the central backup/redo     *)
(* version store (utils.py), the undo/redo/restore/apply handlers and the  *)
(* snippet plan/apply pair (app.py), and the replace worker (threads.py).  *)
(***************************************************************************)
EXTENDS Integers, Sequences, FiniteSets, TLC

(* ------------------------------ bounds --------------------------------- *)

\* number of tracked files shown in the tree
NumFiles == 1
\* number of distinct opaque file contents used by the version-store and
\* replace specifications
NumTexts == 2
\* number of files a scan can hand to the replace worker
NumListed == 2

Files == 1..NumFiles
Texts == 1..NumTexts
\* the opaque content of a file cut short by a failed write
Truncated == 0

(* ------------------------------ slots ---------------------------------- *)
\* A path on disk either does not exist (Absent) or holds a content.
Absent == << >>
Some(c) == << c >>
Exists(s) == s # Absent
Get(s) == s[1]
Slots(S) == {Absent} \cup {Some(c) : c \in S}

VARIABLES
    disk,       \* disk[f]: the tracked file itself
    bak,        \* bak[f]:  central .bak slot of f
    redo,       \* redo[f]: central .redo slot of f
    sel,        \* file selected in the tree
    pending,    \* App._pending_patch_info: Absent or Some(patch)
    last,       \* observation: record of the last handler that ran
    scen,       \* observation: progress through a write/undo/redo cycle
    worker,     \* ReplacementThread: its fields and the locals of run()
    emitted,    \* signals emitted by the worker: progress records, finished
    batch,      \* observation: disk and redo slots when the batch started,
                \* the final content computed for each file, files written,
                \* files backup_and_redo was called for, the file the worker
                \* was in the middle of when stop was called
    edits,      \* number of edits made to the target file outside the tool
    altered,    \* observation: altered[f] is TRUE when a handler has written
                \* f since the slots of f were both absent
    scanner,    \* FileLoaderThread: its fields, the locals of run(), the
                \* items rglob is going to yield, the signals emitted
    coord       \* App: scan_thread, replace_thread, files, the threads
                \* created and the signals queued for the main thread

storeVars == <<disk, bak, redo>>
uiVars == <<sel, pending>>
obsVars == <<last, scen>>
replaceVars == <<worker, emitted, batch>>
envVars == <<edits, altered>>
threadVars == <<scanner, coord>>
vars == <<disk, bak, redo, sel, pending, last, scen, worker, emitted, batch, edits, altered,
          scanner, coord>>

(* --------------------------- environment faults ------------------------ *)
\* One I/O or permission failure may hit a handler call; "none" is the
\* fault-free run.  Each name is the check or call in the source that fails.
SnapshotFaults == {"path", "bak_w", "redo_r", "dir_w", "orig_r", "copy"}
HandlerFaults == {"perm", "restore_copy", "write"}
Faults == {"none"} \cup SnapshotFaults \cup HandlerFaults

(* ------------------------------ utils.py ------------------------------- *)

\* get_central_backup_paths: fails only when the central directory cannot be
\* created.
get_central_backup_paths_ok(fault) == fault # "path"

\* what a snapshot returns and leaves: err names the step that failed
SnapResult(err, b, r) == [ok |-> err = "none", err |-> err, bak |-> b, redo |-> r]

\* mutant: the existing redo is not promoted to backup before it is overwritten
backup_and_redo_NoRotate(d, b, r, fault) ==
    IF ~get_central_backup_paths_ok(fault)
    THEN SnapResult("path", b, r)
    ELSE IF Exists(r) /\ ( (Exists(b) /\ fault = "bak_w")
                           \/ fault \in {"redo_r", "dir_w"} )
    THEN SnapResult("rotate", b, r)
    ELSE IF ~Exists(d) THEN SnapResult("none", b, Absent)
    ELSE IF fault \in {"orig_r", "dir_w", "copy"}
    THEN SnapResult("copy", b, Absent)
    ELSE SnapResult("none", b, d)

\* mutant: the original's existence is tested first, so a missing original
\* leaves a stale redo in place
backup_and_redo_KeepStale(d, b, r, fault) ==
    IF ~get_central_backup_paths_ok(fault)
    THEN SnapResult("path", b, r)
    ELSE IF ~Exists(d) THEN SnapResult("none", b, r)
    ELSE IF Exists(r) /\ ( (Exists(b) /\ fault = "bak_w")
                           \/ fault \in {"redo_r", "dir_w"} )
    THEN SnapResult("rotate", b, r)
    ELSE LET b1 == IF Exists(r) THEN r ELSE b
         IN  IF fault \in {"orig_r", "dir_w", "copy"}
             THEN SnapResult("copy", b1, Absent)
             ELSE SnapResult("none", b1, d)

\* backup_and_redo(original_file_path): d, b, r are the original file, its
\* .bak and its .redo before the call; the result carries the return flag and
\* the two slots after the call.
backup_and_redo(d, b, r, fault) ==
    IF ~get_central_backup_paths_ok(fault)
    THEN SnapResult("path", b, r)
    \* permission checks before the rotation (lines 236-241)
    ELSE IF Exists(r) /\ ( (Exists(b) /\ fault = "bak_w")
                           \/ fault \in {"redo_r", "dir_w"} )
    THEN SnapResult("rotate", b, r)
    ELSE LET b1 == IF Exists(r) THEN r ELSE b       \* os.replace(redo, bak)
         IN  IF ~Exists(d) THEN SnapResult("none", b1, Absent)
             \* checks and copy after the rotation (lines 259-267)
             ELSE IF fault \in {"orig_r", "dir_w", "copy"}
             THEN SnapResult("copy", b1, Absent)
             ELSE SnapResult("none", b1, d)         \* shutil.copy2(orig, redo)

\* safe_write_file: the permission checks precede write_text
safe_write_file_ok(fault) == fault \notin {"write", "write_partial"}

\* what safe_write_file(path, content) leaves at path: d before the call, c
\* the content to write, cut what a write_text that fails midway leaves (the
\* file is opened truncating)
safe_write_file(d, c, fault, cut) ==
    IF fault = "write" THEN d
    ELSE IF fault = "write_partial" THEN Some(cut)
    ELSE Some(c)

(* ---------------------------- observation ------------------------------ *)
NoSnap == Absent
NoScen == [stage |-> "none", file |-> 0, A |-> Absent, B |-> Absent, n |-> 0]

Pre(f) == [disk |-> disk[f], bak |-> bak[f], redo |-> redo[f]]

\* for a redo: the successful undo on the same file that ran right before it
AfterUndo(op, f) ==
    IF op = "redo" /\ last.op = "undo" /\ last.result = "ok" /\ last.file = f
    THEN Some([from |-> last.pre.disk, to |-> last.post])
    ELSE Absent

\* the record of a handler run: its outcome, the file's three paths before
\* it, the result of its snapshot (if it took one), the file after it, and
\* the patch it concerns (the one plan stored, or the one the handler found
\* in the pending slot)
Rec(op, f, result, snap, post, patch) ==
    [op |-> op, file |-> f, result |-> result, pre |-> Pre(f),
     snap |-> snap, post |-> post, patch |-> patch, after |-> AfterUndo(op, f),
     input |-> Absent]

(* ------------------------- app.py: full-file apply --------------------- *)

\* mutant: the pending patch survives the call
clear_and_disable_on_selection_change_Keep == pending
\* App._clear_and_disable_on_selection_change: _pending_patch_info afterwards
clear_and_disable_on_selection_change == Absent

OkWriteScen(f, c) ==
    IF Exists(disk[f]) /\ disk[f] # Some(c)
    THEN [stage |-> "written", file |-> f, A |-> disk[f], B |-> Some(c), n |-> 0]
    ELSE NoScen

\* App.apply_new_code: the formatted editor content c overwrites the
\* selected file after a snapshot.  keep = FALSE is the user declining to
\* apply after a formatter error.
apply_new_code(c, keep, fault) ==
    LET f == sel
        snap == backup_and_redo(disk[f], bak[f], redo[f], fault)
    IN  /\ pending' = clear_and_disable_on_selection_change
        /\ sel' = sel
        /\ IF ~keep
           THEN /\ UNCHANGED storeVars
                /\ last' = Rec("apply_new", f, "declined", NoSnap, disk[f], Absent)
                /\ scen' = NoScen
           ELSE /\ bak' = [bak EXCEPT ![f] = snap.bak]
                /\ redo' = [redo EXCEPT ![f] = snap.redo]
                /\ IF ~snap.ok
                   THEN /\ disk' = disk
                        /\ last' = Rec("apply_new", f, "backup_error", Some(snap), disk[f], Absent)
                        /\ scen' = NoScen
                   ELSE IF ~safe_write_file_ok(fault)
                   THEN /\ disk' = disk
                        /\ last' = Rec("apply_new", f, "write_error", Some(snap), disk[f], Absent)
                        /\ scen' = NoScen
                   ELSE /\ disk' = [disk EXCEPT ![f] = Some(c)]
                        /\ last' = Rec("apply_new", f, "ok", Some(snap), Some(c), pending)
                        /\ scen' = OkWriteScen(f, c)

(* --------------------------- app.py: undo / redo ----------------------- *)

Continues(f, stages) == scen.file = f /\ scen.stage \in stages

\* App.undo_change on the selected file
undo_change(fault) ==
    LET f == sel
        snap == backup_and_redo(disk[f], bak[f], redo[f], fault)
    IN  /\ sel' = sel
        /\ IF ~get_central_backup_paths_ok(fault)
           THEN /\ UNCHANGED <<storeVars, pending>>
                /\ last' = Rec("undo", f, "path_error", NoSnap, disk[f], Absent)
                /\ scen' = NoScen
           ELSE IF ~Exists(bak[f])
           THEN /\ UNCHANGED <<storeVars, pending>>
                /\ last' = Rec("undo", f, "unavailable", NoSnap, disk[f], Absent)
                /\ scen' = IF Continues(f, {"written"})
                           THEN [scen EXCEPT !.stage = "refused"]
                           ELSE NoScen
           ELSE IF fault = "perm"
           THEN /\ UNCHANGED <<storeVars, pending>>
                /\ last' = Rec("undo", f, "error", NoSnap, disk[f], Absent)
                /\ scen' = NoScen
           ELSE /\ bak' = [bak EXCEPT ![f] = snap.bak]
                /\ redo' = [redo EXCEPT ![f] = snap.redo]
                /\ IF ~snap.ok \/ fault = "restore_copy"
                   THEN /\ UNCHANGED <<disk, pending>>
                        /\ last' = Rec("undo", f, "error", Some(snap), disk[f], Absent)
                        /\ scen' = NoScen
                   ELSE \* shutil.copy2(central_backup_path, original_file_path)
                        /\ disk' = [disk EXCEPT ![f] = snap.bak]
                        /\ pending' = clear_and_disable_on_selection_change
                        /\ last' = Rec("undo", f, "ok", Some(snap), snap.bak, pending)
                        /\ scen' = IF Continues(f, {"written", "redone"})
                                   THEN [scen EXCEPT !.stage = "undone",
                                                     !.n = IF scen.n = 0 THEN 1 ELSE 2]
                                   ELSE NoScen

\* mutant: the redo handler copies from the central backup path, not the redo path
redo_change_FromBak(fault) ==
    LET f == sel
        \* the current file is copied to .bak unless it is missing, unreadable
        \* or the central directory is not writable (warnings only)
        saves == Exists(disk[f]) /\ fault \notin {"orig_r", "dir_w"}
        b1 == IF saves /\ fault # "copy" THEN disk[f] ELSE bak[f]
    IN  /\ sel' = sel
        /\ redo' = redo
        /\ IF ~get_central_backup_paths_ok(fault)
           THEN /\ UNCHANGED <<disk, bak, pending>>
                /\ last' = Rec("redo", f, "path_error", NoSnap, disk[f], Absent)
                /\ scen' = NoScen
           ELSE IF ~Exists(redo[f])
           THEN /\ UNCHANGED <<disk, bak, pending>>
                /\ last' = Rec("redo", f, "unavailable", NoSnap, disk[f], Absent)
                /\ scen' = NoScen
           ELSE IF fault = "perm" \/ (saves /\ fault = "copy")
           THEN /\ UNCHANGED <<disk, bak, pending>>
                /\ last' = Rec("redo", f, "error", NoSnap, disk[f], Absent)
                /\ scen' = NoScen
           ELSE /\ bak' = [bak EXCEPT ![f] = b1]
                /\ IF fault = "restore_copy"
                   THEN /\ UNCHANGED <<disk, pending>>
                        /\ last' = Rec("redo", f, "error", NoSnap, disk[f], Absent)
                        /\ scen' = NoScen
                   ELSE /\ disk' = [disk EXCEPT ![f] = b1]
                        /\ pending' = clear_and_disable_on_selection_change
                        /\ last' = Rec("redo", f, "ok", NoSnap, b1, Absent)
                        /\ scen' = IF Continues(f, {"undone"})
                                   THEN [scen EXCEPT !.stage = "redone"]
                                   ELSE NoScen

\* App.redo_change on the selected file
redo_change(fault) ==
    LET f == sel
        \* the current file is copied to .bak unless it is missing, unreadable
        \* or the central directory is not writable (warnings only)
        saves == Exists(disk[f]) /\ fault \notin {"orig_r", "dir_w"}
        b1 == IF saves /\ fault # "copy" THEN disk[f] ELSE bak[f]
    IN  /\ sel' = sel
        /\ redo' = redo
        /\ IF ~get_central_backup_paths_ok(fault)
           THEN /\ UNCHANGED <<disk, bak, pending>>
                /\ last' = Rec("redo", f, "path_error", NoSnap, disk[f], Absent)
                /\ scen' = NoScen
           ELSE IF ~Exists(redo[f])
           THEN /\ UNCHANGED <<disk, bak, pending>>
                /\ last' = Rec("redo", f, "unavailable", NoSnap, disk[f], Absent)
                /\ scen' = NoScen
           ELSE IF fault = "perm" \/ (saves /\ fault = "copy")
           THEN /\ UNCHANGED <<disk, bak, pending>>
                /\ last' = Rec("redo", f, "error", NoSnap, disk[f], Absent)
                /\ scen' = NoScen
           ELSE /\ bak' = [bak EXCEPT ![f] = b1]
                /\ IF fault = "restore_copy"
                   THEN /\ UNCHANGED <<disk, pending>>
                        /\ last' = Rec("redo", f, "error", NoSnap, disk[f], Absent)
                        /\ scen' = NoScen
                   ELSE \* shutil.copy2(central_redo_path, original_file_path)
                        /\ disk' = [disk EXCEPT ![f] = redo[f]]
                        /\ pending' = clear_and_disable_on_selection_change
                        /\ last' = Rec("redo", f, "ok", NoSnap, redo[f], pending)
                        /\ scen' = IF Continues(f, {"undone"})
                                   THEN [scen EXCEPT !.stage = "redone"]
                                   ELSE NoScen

(* ------------------------ app.py: context-menu restore ----------------- *)

\* App.trigger_restore_from_source(target_file, source_file): source is the
\* central .bak or .redo path of the selected file; confirm is the dialog's
\* answer.
trigger_restore_from_source(source, confirm, fault) ==
    LET f == sel
        src == IF source = "bak" THEN bak[f] ELSE redo[f]
        snap == IF Exists(disk[f])
                THEN backup_and_redo(disk[f], bak[f], redo[f], fault)
                ELSE SnapResult("none", bak[f], redo[f])
        \* the copy reads the source path as it is after the snapshot
        srcNow == IF source = "bak" THEN snap.bak ELSE snap.redo
    IN  /\ sel' = sel
        /\ scen' = NoScen
        /\ IF ~Exists(src)
           THEN /\ UNCHANGED <<storeVars, pending>>
                /\ last' = Rec("restore", f, "unavailable", NoSnap, disk[f], Absent)
           ELSE IF ~confirm
           THEN /\ UNCHANGED <<storeVars, pending>>
                /\ last' = Rec("restore", f, "declined", NoSnap, disk[f], Absent)
           ELSE IF fault = "perm"
           THEN /\ UNCHANGED <<storeVars, pending>>
                /\ last' = Rec("restore", f, "error", NoSnap, disk[f], Absent)
           ELSE /\ bak' = [bak EXCEPT ![f] = snap.bak]
                /\ redo' = [redo EXCEPT ![f] = snap.redo]
                /\ IF ~snap.ok \/ fault = "restore_copy"
                   THEN /\ UNCHANGED <<disk, pending>>
                        /\ last' = Rec("restore", f, "error",
                                       IF Exists(disk[f]) THEN Some(snap) ELSE NoSnap,
                                       disk[f], Absent)
                   ELSE /\ disk' = [disk EXCEPT ![f] = srcNow]
                        /\ pending' = clear_and_disable_on_selection_change
                        /\ last' = [Rec("restore", f, "ok",
                                        IF Exists(disk[f]) THEN Some(snap) ELSE NoSnap,
                                        srcNow, pending) EXCEPT !.input = Some(source)]

(* ------------------------------ environment ---------------------------- *)

\* the user clicks another file in the tree (App.on_tree_clicked)
on_tree_clicked(f) ==
    /\ sel' = f
    /\ pending' = clear_and_disable_on_selection_change
    /\ last' = Rec("select", f, "ok", NoSnap, disk[f], pending)
    /\ scen' = NoScen
    /\ UNCHANGED storeVars

\* the selected file is deleted outside the tool
ExternalDelete ==
    /\ Exists(disk[sel])
    /\ disk' = [disk EXCEPT ![sel] = Absent]
    /\ last' = Rec("ext_delete", sel, "ok", NoSnap, Absent, Absent)
    /\ scen' = NoScen
    /\ UNCHANGED <<bak, redo, sel, pending>>

(* ------------------- specification of the version store ---------------- *)

InitObs ==
    /\ last = [op |-> "init", file |-> 0, result |-> "none",
               pre |-> [disk |-> Absent, bak |-> Absent, redo |-> Absent],
               snap |-> NoSnap, post |-> Absent, patch |-> Absent, after |-> Absent,
               input |-> Absent]
    /\ scen = NoScen

InitStore ==
    /\ disk \in [Files -> {Some(c) : c \in Texts}]
    /\ bak = [f \in Files |-> Absent]
    /\ redo = [f \in Files |-> Absent]
    /\ sel \in Files
    /\ pending = Absent
    /\ InitObs

NoAltered == [f \in Files |-> FALSE]

NoWorker ==
    [pc |-> "none", files_to_process |-> << >>, pattern |-> FALSE,
     is_running |-> FALSE, idx |-> 0, processed_count |-> 0,
     original_content |-> Absent, modified_content |-> Absent,
     final_content |-> Absent,
     replacement_error |-> FALSE, format_error |-> FALSE]
NoEmitted == [progress |-> << >>, finished |-> 0]
NoBatch == [orig |-> << >>, redo0 |-> << >>, final |-> << >>,
            wrote |-> {}, snapped |-> {}, midfile |-> {}]

\* no scan thread exists
NoScanner ==
    [pc |-> "none", is_running |-> FALSE, tree |-> << >>, pos |-> 0,
     files_found |-> << >>, item_errors |-> {}, loaded |-> << >>, errors |-> 0,
     cancel_at |-> Absent]
\* App.__init__, lines 82-83, and _init_ui, lines 181-191: no thread yet, no
\* file list, nothing queued, Scan & Run enabled and Cancel disabled
NoCoord ==
    [scan_thread |-> 0, replace_thread |-> 0, files |-> << >>, threads |-> << >>,
     queue |-> << >>, reset_pending |-> FALSE, requests |-> 0, warned |-> 0,
     scan_btn |-> TRUE, cancel_btn |-> FALSE]

\* every file exists with some content and has no history yet; no batch runs
Init ==
    /\ InitStore
    /\ worker = NoWorker
    /\ emitted = NoEmitted
    /\ batch = NoBatch
    /\ edits = 0 /\ altered = NoAltered
    /\ scanner = NoScanner /\ coord = NoCoord

Handlers ==
    \/ \E c \in Texts, keep \in BOOLEAN, fault \in Faults :
          (keep \/ fault = "none") /\ apply_new_code(c, keep, fault)
    \/ \E fault \in Faults : undo_change(fault)
    \/ \E fault \in Faults : redo_change(fault)
    \/ \E source \in {"bak", "redo"}, confirm \in BOOLEAN, fault \in Faults :
          (confirm \/ fault = "none") /\ trigger_restore_from_source(source, confirm, fault)
    \/ \E f \in Files : on_tree_clicked(f)
    \/ ExternalDelete

Next == Handlers /\ UNCHANGED <<replaceVars, envVars, threadVars>>

\* the handlers with the writes they make kept per file: a step counts for f
\* when it leaves f with other content than it had or when a handler has
\* written f to its end (a deletion outside the tool is no handler), from the
\* moment f has a slot
WritesFile(f) ==
    /\ last'.op # "ext_delete"
    /\ \/ disk'[f] # disk[f]
       \/ /\ last'.file = f /\ last'.result = "ok"
          /\ last'.op \in {"apply_new", "undo", "redo", "restore"}

TrackAltered ==
    altered' = [f \in Files |->
                   /\ Exists(bak'[f]) \/ Exists(redo'[f])
                   /\ altered[f] \/ WritesFile(f)]

NextHistory == Handlers /\ TrackAltered /\ UNCHANGED <<replaceVars, edits, threadVars>>

Spec == Init /\ [][Next]_vars

SpecHistory == Init /\ [][NextHistory]_vars


(* ==================== threads.py: ReplacementThread ==================== *)

RFiles == 1..NumListed

Total == Len(worker.files_to_process)
CurFile == worker.files_to_process[worker.idx]

\* Python's float is IEEE 754 binary64: a significand of 53 bits, results
\* rounded to nearest, ties to even.  A positive float is modelled as
\* [sig, exp]: sig the 53 significand bits, first bit 1, most significant
\* first; the value is sig (read as a binary integer) times 2^exp.
SigBits == 53

RECURSIVE bits_int(_)
bits_int(bits) ==
    IF bits = << >> THEN 0
    ELSE 2 * bits_int(SubSeq(bits, 1, Len(bits) - 1)) + bits[Len(bits)]

RECURSIVE int_bits(_)
int_bits(v) == IF v = 0 THEN << >> ELSE Append(int_bits(v \div 2), v % 2)

\* bits plus one in the last place; all ones wrap to all zeros
RECURSIVE inc_bits(_)
inc_bits(bits) ==
    IF bits = << >> THEN << >>
    ELSE IF bits[Len(bits)] = 0 THEN Append(SubSeq(bits, 1, Len(bits) - 1), 1)
    ELSE Append(inc_bits(SubSeq(bits, 1, Len(bits) - 1)), 0)

\* round to nearest, ties to even: kept are the SigBits leading bits whose
\* last place weighs 2^exp, guard the first bit dropped, sticky whether any
\* later dropped part is non-zero
round_float(kept, guard, sticky, exp) ==
    IF guard = 1 /\ (sticky \/ kept[SigBits] = 1)
    THEN IF \A k \in 1..SigBits : kept[k] = 1
         THEN [sig |-> [k \in 1..SigBits |-> IF k = 1 THEN 1 ELSE 0], exp |-> exp + 1]
         ELSE [sig |-> inc_bits(kept), exp |-> exp]
    ELSE [sig |-> kept, exp |-> exp]

\* the least a with i * 2^a >= n
RECURSIVE norm_shift(_, _)
norm_shift(i, n) == IF i >= n THEN 0 ELSE 1 + norm_shift(2 * i, n)

\* the next k bits of rem / n by long division (rem < n), and the remainder
\* left after them
RECURSIVE div_bits(_, _, _)
div_bits(rem, n, k) ==
    IF k = 0 THEN << >>
    ELSE LET d == IF 2 * rem >= n THEN 1 ELSE 0
         IN  << d >> \o div_bits(2 * rem - d * n, n, k - 1)
RECURSIVE div_rem(_, _, _)
div_rem(rem, n, k) ==
    IF k = 0 THEN rem
    ELSE div_rem(2 * rem - (IF 2 * rem >= n THEN n ELSE 0), n, k - 1)

\* processed_count / total_files for 1 <= i <= n: true division of two ints,
\* correctly rounded
float_div(i, n) ==
    LET a == norm_shift(i, n)
        first == i * 2^a - n
        rem == div_rem(first, n, SigBits - 1)
        guard == IF 2 * rem >= n THEN 1 ELSE 0
    IN  round_float(<< 1 >> \o div_bits(first, n, SigBits - 1), guard,
                    2 * rem - guard * n # 0, 0 - a - (SigBits - 1))

Reverse(s) == [k \in 1..Len(s) |-> s[Len(s) + 1 - k]]

\* the bits, least significant first, of c times the first k bits of bits,
\* plus carry, for a small integer c
RECURSIVE mul_low_first(_, _, _, _)
mul_low_first(bits, c, k, carry) ==
    IF k = 0 THEN Reverse(int_bits(carry))
    ELSE LET t == bits[k] * c + carry
         IN  << t % 2 >> \o mul_low_first(bits, c, k - 1, t \div 2)

mul_bits(bits, c) == Reverse(mul_low_first(bits, c, Len(bits), 0))

\* x * 100: the int is converted exactly, the product correctly rounded
float_mul(x, c) ==
    LET prod == mul_bits(x.sig, c)
        extra == Len(prod) - SigBits
    IN  IF extra = 0 THEN [sig |-> prod, exp |-> x.exp]
        ELSE round_float(SubSeq(prod, 1, SigBits), prod[SigBits + 1],
                         \E k \in (SigBits + 2)..Len(prod) : prod[k] = 1,
                         x.exp + extra)

\* int(x) for a positive float below 2^SigBits: the fraction is cut off
float_int(x) == IF SigBits + x.exp <= 0 THEN 0
                ELSE bits_int(SubSeq(x.sig, 1, SigBits + x.exp))

\* int((processed_count / total_files) * 100), lines 174, 200, 207, 274, 283
\* and 336
float_percent(i, n) ==
    IF i = 0 THEN 0 ELSE float_int(float_mul(float_div(i, n), 100))

\* the longest scanned list of the percentage runs
MaxTotal == 50

\* float_percent tabulated, computed once
PercentTable == [n \in 1..MaxTotal |-> [i \in 0..n |-> float_percent(i, n)]]

Percent(n) == PercentTable[Total][n]

ProgressRec(f, n, status, rerr, ferr) ==
    [file |-> f, percent |-> Percent(n), status |-> status,
     replacement_error |-> rerr, format_error |-> ferr]

\* self.progress.emit(percent, log_msg)
EmitProgress(rec) == emitted' = [emitted EXCEPT !.progress = Append(@, rec)]

\* processed_count += 1 and on to the next item of the for loop
NextFile ==
    [worker EXCEPT !.idx = @ + 1, !.processed_count = @ + 1, !.pc = "top",
                   !.original_content = Absent, !.modified_content = Absent,
                   !.final_content = Absent,
                   !.replacement_error = FALSE, !.format_error = FALSE]

\* mutant: an empty list makes run return without a signal
run_start_Silent ==
    /\ worker.pc = "start"
    /\ worker' = IF Total = 0 THEN [worker EXCEPT !.pc = "done"]
                 ELSE [worker EXCEPT !.pc = "top", !.idx = 1, !.processed_count = 0]
    /\ UNCHANGED <<storeVars, uiVars, obsVars, batch, emitted>>

\* mutant: the loop starts at the last file of the list
run_start_FromLast ==
    /\ worker.pc = "start"
    /\ IF Total = 0
       THEN /\ worker' = [worker EXCEPT !.pc = "done"]
            /\ emitted' = [emitted EXCEPT !.finished = @ + 1]
       ELSE /\ worker' = [worker EXCEPT !.pc = "top", !.idx = Total, !.processed_count = 0]
            /\ emitted' = emitted
    /\ UNCHANGED <<storeVars, uiVars, obsVars, batch>>
\* ReplacementThread.run, lines 165-170
run_start ==
    /\ worker.pc = "start"
    /\ IF Total = 0
       THEN /\ worker' = [worker EXCEPT !.pc = "done"]
            /\ emitted' = [emitted EXCEPT !.finished = @ + 1]
       ELSE /\ worker' = [worker EXCEPT !.pc = "top", !.idx = 1, !.processed_count = 0]
            /\ emitted' = emitted
    /\ UNCHANGED <<storeVars, uiVars, obsVars, batch>>

\* mutant: the cancellation is reported and the loop goes on
loop_top_NoBreak ==
    /\ worker.pc = "top"
    /\ IF worker.idx > Total
       THEN /\ worker' = [worker EXCEPT !.pc = "end"]
            /\ emitted' = emitted
       ELSE IF ~worker.is_running
       THEN /\ worker' = [worker EXCEPT !.pc = "read"]
            /\ EmitProgress(ProgressRec(0, worker.processed_count, "cancelled", FALSE, FALSE))
       ELSE /\ worker' = [worker EXCEPT !.pc = "read"]
            /\ emitted' = emitted
    /\ UNCHANGED <<storeVars, uiVars, obsVars, batch>>
\* the head of the for loop and its cancellation check, lines 171-177
loop_top ==
    /\ worker.pc = "top"
    /\ IF worker.idx > Total
       THEN /\ worker' = [worker EXCEPT !.pc = "end"]
            /\ emitted' = emitted
       ELSE IF ~worker.is_running
       THEN /\ worker' = [worker EXCEPT !.pc = "end"]
            /\ EmitProgress(ProgressRec(0, worker.processed_count, "cancelled", FALSE, FALSE))
       ELSE /\ worker' = [worker EXCEPT !.pc = "read"]
            /\ emitted' = emitted
    /\ UNCHANGED <<storeVars, uiVars, obsVars, batch>>

\* step 1, lines 192-209: _read_file
read_original(fault) ==
    /\ worker.pc = "read"
    /\ IF ~Exists(disk[CurFile]) \/ fault = "read"
       THEN /\ worker' = NextFile
            /\ EmitProgress(ProgressRec(CurFile, worker.processed_count + 1,
                                        "read_error", FALSE, FALSE))
       ELSE /\ worker' = [worker EXCEPT !.pc = "transform",
                                        !.original_content = disk[CurFile]]
            /\ emitted' = emitted
    /\ UNCHANGED <<storeVars, uiVars, obsVars, batch>>

\* formatter_utils.clean_chat_paste and normalize_indentation on opaque
\* texts: an odd text carries what they remove (surrounding white space,
\* common indentation, tabs, CR line ends, typographic quotes), the next
\* even text is its cleaned form, which they leave alone
preprocess(code) == IF code % 2 = 1 THEN code + 1 ELSE code

\* formatter_utils.preprocess_and_format_with_black: black_out is what Black
\* prints for the preprocessed text, black_failed a non-zero exit, a
\* timeout or a missing Black; empty preprocessed text is returned as it is
preprocess_and_format_with_black(code, black_out, black_failed) ==
    IF preprocess(code) = Truncated THEN [text |-> preprocess(code), err |-> FALSE]
    ELSE IF black_failed THEN [text |-> preprocess(code), err |-> TRUE]
    ELSE [text |-> black_out, err |-> FALSE]

\* mutant: the worker snapshots and writes whether or not the content changed
content_changed_Always(original_content, final_content_to_write) == TRUE
\* the test of step 4, line 260
content_changed(original_content, final_content_to_write) ==
    original_content # final_content_to_write

\* mutant: what _apply_replacement returned is kept when it reports an error
apply_replacement_KeepPartial(m, rerr) ==
    /\ worker.pc = "transform"
    /\ rerr => worker.pattern
    /\ worker' = [worker EXCEPT !.pc = "format",
                                !.modified_content =
                                    IF worker.pattern THEN Some(m)
                                    ELSE worker.original_content,
                                !.replacement_error = rerr]
    /\ UNCHANGED <<storeVars, uiVars, obsVars, emitted, batch>>
\* step 2, lines 211-229: m is what _apply_replacement returns, rerr whether
\* it reports an error
apply_replacement(m, rerr) ==
    /\ worker.pc = "transform"
    /\ rerr => worker.pattern
    /\ worker' = [worker EXCEPT !.pc = "format",
                                !.modified_content =
                                    IF worker.pattern /\ ~rerr THEN Some(m)
                                    ELSE worker.original_content,
                                !.replacement_error = rerr]
    /\ UNCHANGED <<storeVars, uiVars, obsVars, emitted, batch>>

\* step 3 and the comparison of step 4, lines 232-260 and 326-339: p is what
\* Black prints, ferr whether Black fails
format_content(p, ferr) ==
    /\ worker.pc = "format"
    /\ LET formatted == preprocess_and_format_with_black(Get(worker.modified_content),
                                                         p, ferr)
           final_content_to_write == Some(formatted.text)
       IN  /\ IF content_changed(worker.original_content, final_content_to_write)
              THEN /\ worker' = [worker EXCEPT !.pc = "backup",
                                               !.final_content = final_content_to_write,
                                               !.format_error = formatted.err]
                   /\ emitted' = emitted
              ELSE /\ worker' = NextFile
                   /\ EmitProgress(ProgressRec(CurFile, worker.processed_count + 1,
                                               "no_change", worker.replacement_error,
                                               formatted.err))
           /\ batch' = [batch EXCEPT !.final[CurFile] = final_content_to_write]
    /\ UNCHANGED <<storeVars, uiVars, obsVars>>

\* mutant: the worker goes on to write without taking the snapshot
create_backup_Skip(fault) ==
    /\ worker.pc = "backup"
    /\ worker' = [worker EXCEPT !.pc = "write"]
    /\ UNCHANGED <<storeVars, uiVars, obsVars, emitted, batch>>

\* mutant: a failed snapshot ends the batch
create_backup_Abort(fault) ==
    /\ worker.pc = "backup"
    /\ LET f == CurFile
           snap == backup_and_redo(disk[f], bak[f], redo[f], fault)
       IN  /\ bak' = [bak EXCEPT ![f] = snap.bak]
           /\ redo' = [redo EXCEPT ![f] = snap.redo]
           /\ batch' = [batch EXCEPT !.snapped = @ \cup {f}]
           /\ IF snap.ok
              THEN /\ worker' = [worker EXCEPT !.pc = "write"]
                   /\ emitted' = emitted
              ELSE /\ worker' = [worker EXCEPT !.pc = "end"]
                   /\ EmitProgress(ProgressRec(f, worker.processed_count + 1,
                                               "backup_error", worker.replacement_error,
                                               worker.format_error))
    /\ UNCHANGED <<disk, uiVars, obsVars>>
\* step 4a, lines 264-285: backup_and_redo(file_path)
create_backup(fault) ==
    /\ worker.pc = "backup"
    /\ LET f == CurFile
           snap == backup_and_redo(disk[f], bak[f], redo[f], fault)
       IN  /\ bak' = [bak EXCEPT ![f] = snap.bak]
           /\ redo' = [redo EXCEPT ![f] = snap.redo]
           /\ batch' = [batch EXCEPT !.snapped = @ \cup {f}]
           /\ IF snap.ok
              THEN /\ worker' = [worker EXCEPT !.pc = "write"]
                   /\ emitted' = emitted
              ELSE /\ worker' = NextFile
                   /\ EmitProgress(ProgressRec(f, worker.processed_count + 1,
                                               "backup_error", worker.replacement_error,
                                               worker.format_error))
    /\ UNCHANGED <<disk, uiVars, obsVars>>

UpdatedStatus ==
    IF worker.replacement_error THEN "updated_replace_error"
    ELSE IF worker.format_error THEN "updated_format_warning"
    ELSE "updated"

\* mutant: a failed write is reported as an update
write_status_Updated(fault) == UpdatedStatus
\* lines 309-319: the status after safe_write_file
write_status(fault) ==
    IF safe_write_file_ok(fault) THEN UpdatedStatus ELSE "write_error"

\* mutant: a cancel request stops the worker between snapshot and write
write_content_Interruptible(fault) ==
    /\ worker.pc = "write"
    /\ IF ~worker.is_running
       THEN /\ worker' = [worker EXCEPT !.pc = "top"]
            /\ UNCHANGED <<disk, batch, emitted>>
       ELSE LET f == CurFile
                after == safe_write_file(disk[f], Get(worker.final_content), fault, Truncated)
            IN  /\ disk' = [disk EXCEPT ![f] = after]
                /\ batch' = [batch EXCEPT !.wrote = IF after # disk[f] THEN @ \cup {f} ELSE @]
                /\ EmitProgress(ProgressRec(f, worker.processed_count + 1,
                                            write_status(fault),
                                            worker.replacement_error, worker.format_error))
                /\ worker' = NextFile
    /\ UNCHANGED <<bak, redo, uiVars, obsVars>>
\* steps 4c and 5, lines 305-339: safe_write_file, then the progress record
write_content(fault) ==
    /\ worker.pc = "write"
    /\ LET f == CurFile
           after == safe_write_file(disk[f], Get(worker.final_content), fault, Truncated)
       IN  /\ disk' = [disk EXCEPT ![f] = after]
           /\ batch' = [batch EXCEPT !.wrote = IF after # disk[f] THEN @ \cup {f} ELSE @]
           /\ EmitProgress(ProgressRec(f, worker.processed_count + 1,
                                       write_status(fault),
                                       worker.replacement_error, worker.format_error))
    /\ worker' = NextFile
    /\ UNCHANGED <<bak, redo, uiVars, obsVars>>

\* the end of run, line 344: self.finished.emit()
run_end ==
    /\ worker.pc = "end"
    /\ worker' = [worker EXCEPT !.pc = "done"]
    /\ emitted' = [emitted EXCEPT !.finished = @ + 1]
    /\ UNCHANGED <<storeVars, uiVars, obsVars, batch>>

\* ReplacementThread.stop, called from the coordinator while the worker runs
stop ==
    /\ worker.pc \notin {"none", "done"}
    /\ worker.is_running
    /\ worker' = [worker EXCEPT !.is_running = FALSE]
    /\ batch' = [batch EXCEPT !.midfile =
                    IF worker.pc \in {"read", "transform", "format", "backup", "write"}
                    THEN {CurFile} ELSE {}]
    /\ UNCHANGED <<storeVars, uiVars, obsVars, emitted>>

\* App.replacement_finished, lines 820-830, the slot of the worker's
\* finished signal: what the coordinator reports
replacement_finished ==
    LET was_cancelled == ~worker.is_running
    IN  IF was_cancelled THEN "cancelled" ELSE "complete"

\* the file lists a scan can deliver: the first n files, in discovery order
FileLists == {[i \in 1..n |-> i] : n \in 0..NumListed}

\* a worker constructed over a scanned list; every file exists and may carry
\* a redo state from an earlier change (contents are opaque: each file
\* starts with the first text, an earlier redo state holds the last one)
InitReplace ==
    /\ disk = [f \in RFiles |-> Some(1)]
    /\ bak = [f \in RFiles |-> Absent]
    /\ redo \in [RFiles -> {Absent, Some(NumTexts)}]
    /\ sel = 1
    /\ pending = Absent
    /\ InitObs
    /\ \E files \in FileLists, pattern \in BOOLEAN :
          worker = [NoWorker EXCEPT !.pc = "start", !.files_to_process = files,
                                    !.pattern = pattern, !.is_running = TRUE]
    /\ emitted = NoEmitted
    /\ batch = [orig |-> disk, redo0 |-> redo, final |-> [f \in RFiles |-> Absent],
                wrote |-> {}, snapped |-> {}, midfile |-> {}]
    /\ edits = 0 /\ altered = NoAltered
    /\ scanner = NoScanner /\ coord = NoCoord

\* what _apply_replacement and Black can hand back: the text every file
\* starts with, or its cleaned form
Outputs == {1, preprocess(1)}

RunSteps ==
    \/ run_start
    \/ loop_top
    \/ \E fault \in {"none", "read"} : read_original(fault)
    \/ \E m \in Outputs, rerr \in BOOLEAN : apply_replacement(m, rerr)
    \/ \E p \in Outputs, ferr \in BOOLEAN : format_content(p, ferr)
    \/ \E fault \in {"none"} \cup SnapshotFaults : create_backup(fault)
    \/ \E fault \in {"none", "write", "write_partial"} : write_content(fault)
    \/ run_end

WorkerSteps ==
    \/ RunSteps
    \/ stop

NextReplace == WorkerSteps /\ UNCHANGED <<envVars, threadVars>>

SpecReplace == InitReplace /\ [][NextReplace]_vars

\* the thread, once started, keeps being scheduled until run returns
SpecReplaceLive == SpecReplace /\ WF_vars(RunSteps /\ UNCHANGED <<envVars, threadVars>>)

\* a worker over a scanned list of up to MaxTotal files none of which can be
\* read any more (removed since the scan): every iteration ends at step 1
InitPercent ==
    /\ disk = [f \in 1..MaxTotal |-> Absent]
    /\ bak = [f \in 1..MaxTotal |-> Absent]
    /\ redo = [f \in 1..MaxTotal |-> Absent]
    /\ sel = 1
    /\ pending = Absent
    /\ InitObs
    /\ \E n \in 1..MaxTotal :
          worker = [NoWorker EXCEPT !.pc = "start", !.files_to_process = [i \in 1..n |-> i],
                                    !.is_running = TRUE]
    /\ emitted = NoEmitted
    /\ batch = NoBatch
    /\ edits = 0 /\ altered = NoAltered
    /\ scanner = NoScanner /\ coord = NoCoord

\* the steps such a run takes
NextPercent ==
    /\ \/ run_start
       \/ loop_top
       \/ \E fault \in {"none", "read"} : read_original(fault)
       \/ run_end
       \/ stop
    /\ UNCHANGED <<envVars, threadVars>>

SpecPercent == InitPercent /\ [][NextPercent]_vars

(* ======================= claims on the replace worker ================== *)

\* C4: whenever cancel is requested, once the worker has finished every file
\* it overwrote has its pre-overwrite content in its redo slot and every
\* file it did not overwrite still holds its original content.
C4_NoLossUnderCancel ==
    worker.pc = "done" =>
        \A f \in RFiles :
            /\ f \in batch.wrote => redo[f] = batch.orig[f]
            /\ f \notin batch.wrote => disk[f] = batch.orig[f]

C4_Witness ==
    /\ worker.pc = "done" /\ ~worker.is_running
    /\ batch.wrote # {}
    /\ worker.processed_count < Total
    /\ \E f \in batch.wrote : disk[f] # batch.orig[f] /\ redo[f] = batch.orig[f]

\* the positions of the progress records emitted for file f
RecordsOf(f) == {i \in 1..Len(emitted.progress) : emitted.progress[i].file = f}
UpdatedStatuses == {"updated", "updated_format_warning", "updated_replace_error"}
UpdatedRecordsOf(f) ==
    {i \in RecordsOf(f) : emitted.progress[i].status \in UpdatedStatuses}

\* the positions of the cancelled records among the progress records
CancelledAt ==
    {k \in 1..Len(emitted.progress) : emitted.progress[k].status = "cancelled"}

\* the worker did nothing to the file at position i of its list
NotStarted(i) ==
    LET f == worker.files_to_process[i]
    IN  /\ RecordsOf(f) = {}
        /\ ~Exists(batch.final[f])
        /\ f \notin batch.snapped
        /\ f \notin batch.wrote
        /\ disk[f] = batch.orig[f]
        /\ redo[f] = batch.redo0[f]
        /\ bak[f] = Absent

CancelObserved ==
    \A k \in CancelledAt :
        /\ CancelledAt = {k}
        /\ k = Len(emitted.progress)
        /\ worker.processed_count = k - 1
        /\ emitted.progress[k].percent = Percent(k - 1)
        /\ worker.pc \in {"end", "done"}
        /\ \A i \in k..Total : NotStarted(i)

\* C29: when the worker finds the cancel flag set at the top of the
\* iteration for the file at position i, it reads, snapshots and writes
\* neither that file nor a later one, emits one cancelled record with the
\* percent of the i - 1 files processed, and then emits finished.
C29_CancelAtTop ==
    /\ []CancelObserved
    /\ (CancelledAt # {}) ~> (emitted.finished = 1)

\* cancelled after the first file was rewritten, with a file left
C29_Witness ==
    /\ worker.pc = "done" /\ emitted.finished = 1
    /\ \E k \in CancelledAt :
          /\ k > 1 /\ k <= Total
          /\ worker.files_to_process[1] \in batch.wrote
          /\ emitted.progress[k].percent > 0

\* backup_and_redo was called for f and returned success
SnapshotTaken(f) ==
    /\ f \in batch.snapped
    /\ \A i \in RecordsOf(f) : emitted.progress[i].status # "backup_error"

\* safe_write_file was called for f: its record reports the update or the
\* write error
WriteAttempted(f) ==
    \E i \in RecordsOf(f) :
        emitted.progress[i].status \in UpdatedStatuses \cup {"write_error"}

\* C30: a cancel request that arrives while a file is in its
\* read/replace/format/snapshot/write sequence does not interrupt it: in
\* every state, under every interleaving of stop with the worker's steps, a
\* file whose snapshot the worker took has had its write attempt or is the
\* file the worker is about to write, so that none is left when run returns.
C30_NoCancelMidFile ==
    \A f \in RFiles :
        SnapshotTaken(f) =>
            \/ WriteAttempted(f)
            \/ worker.pc = "write" /\ CurFile = f

\* stop was called while the worker was in the middle of a file; the file
\* was snapshotted and written all the same, and the files after it were
\* not started
C30_Witness ==
    /\ worker.pc = "done" /\ ~worker.is_running
    /\ \E f \in batch.midfile :
          /\ SnapshotTaken(f) /\ WriteAttempted(f)
          /\ f \in batch.wrote /\ redo[f] = batch.orig[f]
          /\ worker.processed_count < Total

\* the worker is between the read and the progress record of a file
MidFile == worker.pc \in {"read", "transform", "format", "backup", "write"}

\* the worker has read, snapshotted, written or reported the file at
\* position j of its list, or is working on it
Touched(j) == ~NotStarted(j) \/ (MidFile /\ worker.idx = j)

\* C31: files are processed in the order of the list: whenever the file at
\* position j has been read, written or reported, every file at a position
\* i < j already has its progress record, and the records stand in the
\* order of the list.
C31_ListOrder ==
    \A j \in 1..Total :
        Touched(j) =>
            \A i \in 1..(j - 1) :
                /\ i <= Len(emitted.progress)
                /\ emitted.progress[i].file = worker.files_to_process[i]
                /\ RecordsOf(worker.files_to_process[i]) = {i}

\* the second file is being written after the first was written and reported
C31_Witness ==
    /\ Total >= 2
    /\ worker.pc = "write" /\ worker.idx = 2
    /\ worker.files_to_process[1] \in batch.wrote
    /\ RecordsOf(worker.files_to_process[1]) = {1}
    /\ RecordsOf(worker.files_to_process[2]) = {}

\* the last progress record emitted
LastRecord(e) == e.progress[Len(e.progress)]

\* find/replace has failed for the current file
ReplaceFailed ==
    worker.pc \in {"format", "backup", "write"} /\ worker.replacement_error

\* C32: when find/replace fails for a file, the content that goes to the
\* formatter is the content read; the step that ends the file's iteration
\* emits the file's progress record with the replace error on it and takes
\* the worker to the next file of the list.
C32_ReplaceErrorFallsBack ==
    /\ [](ReplaceFailed => worker.modified_content = worker.original_content)
    /\ [][(ReplaceFailed /\ worker'.pc # worker.pc /\ worker'.pc \notin {"backup", "write"})
            => /\ worker'.pc = "top" /\ worker'.idx = worker.idx + 1
               /\ Len(emitted'.progress) = Len(emitted.progress) + 1
               /\ LastRecord(emitted').file = CurFile
               /\ LastRecord(emitted').replacement_error]_vars

\* the first file's replace failed, the file was formatted from the content
\* read, written and reported, and the second file is being read
C32_Witness ==
    /\ worker.pc = "read" /\ worker.idx = 2
    /\ emitted.progress[1].replacement_error
    /\ emitted.progress[1].status = "updated_replace_error"
    /\ disk[worker.files_to_process[1]] = batch.final[worker.files_to_process[1]]

\* C33: when the snapshot of a changed file fails, the file is not written
\* (it holds the content read), one progress record with the backup error is
\* emitted for it with the percent of the files counted so far, it included,
\* and the worker goes to the next file of the list.
C33_SnapshotFailureSkipsFile ==
    /\ [](\A f \in RFiles :
             \A i \in RecordsOf(f) :
                 emitted.progress[i].status = "backup_error" =>
                     /\ disk[f] = batch.orig[f]
                     /\ f \notin batch.wrote
                     /\ RecordsOf(f) = {i}
                     /\ emitted.progress[i].percent = Percent(i))
    /\ [][(worker.pc = "backup" /\ worker'.pc \notin {"backup", "write"})
            => /\ worker'.pc = "top" /\ worker'.idx = worker.idx + 1
               /\ worker'.processed_count = worker.processed_count + 1
               /\ Len(emitted'.progress) = Len(emitted.progress) + 1
               /\ LastRecord(emitted').file = CurFile
               /\ LastRecord(emitted').status = "backup_error"
               /\ disk' = disk]_vars

\* the first file's snapshot failed after its content had changed; the file
\* holds what was read and the second file is being read
C33_Witness ==
    /\ worker.pc = "read" /\ worker.idx = 2
    /\ emitted.progress[1].status = "backup_error"
    /\ LET f == worker.files_to_process[1]
       IN  /\ batch.final[f] # batch.orig[f]
           /\ disk[f] = batch.orig[f]
           /\ f \in batch.snapped

\* C15: a file whose final content equals the content read gets no snapshot
\* and no write (file and version pair stay as the batch found them), and its
\* one progress record reports no change.
C15_UnchangedFileUntouched ==
    \A f \in RFiles :
        (RecordsOf(f) # {} /\ Exists(batch.final[f]) /\ batch.final[f] = batch.orig[f]) =>
            /\ f \notin batch.snapped
            /\ f \notin batch.wrote
            /\ disk[f] = batch.orig[f]
            /\ redo[f] = batch.redo0[f]
            /\ bak[f] = Absent
            /\ \A i \in RecordsOf(f) : emitted.progress[i].status = "no_change"
            /\ Cardinality(RecordsOf(f)) = 1

\* a formatted file with a stale redo state, reported with a formatter
\* warning and left alone
C15_Witness ==
    \E f \in RFiles :
        /\ RecordsOf(f) # {}
        /\ batch.final[f] = batch.orig[f]
        /\ Exists(redo[f])
        /\ \E i \in RecordsOf(f) : emitted.progress[i].status = "no_change"

\* C16: a file whose final content differs from the content read and whose
\* snapshot and write both succeed holds the final content afterwards, has
\* the content read in its redo slot, and has exactly one progress record
\* with an updated status; no other file has such a record.
C16_UpdatedFile ==
    \A f \in RFiles :
        LET changed == /\ RecordsOf(f) # {}
                       /\ Exists(batch.final[f])
                       /\ batch.final[f] # batch.orig[f]
                       /\ disk[f] = batch.final[f]
        IN  /\ changed => /\ redo[f] = batch.orig[f]
                          /\ Cardinality(UpdatedRecordsOf(f)) = 1
                          /\ Cardinality(RecordsOf(f)) = 1
            /\ UpdatedRecordsOf(f) # {} => changed

C16_Witness ==
    \E f \in RFiles :
        /\ UpdatedRecordsOf(f) # {}
        /\ disk[f] = batch.final[f]
        /\ batch.final[f] # batch.orig[f]
        /\ Exists(batch.redo0[f])
        /\ redo[f] = batch.orig[f]

\* C17 (as stated): a run over N >= 1 files that is not cancelled emits N
\* progress records, the i-th carrying percent floor(i*100/N), the last 100.
C17_PercentIsFloor ==
    /\ \A i \in 1..Len(emitted.progress) :
           emitted.progress[i].status # "cancelled" =>
               emitted.progress[i].percent = (i * 100) \div Total
    /\ (worker.pc = "done" /\ worker.is_running) =>
           /\ Len(emitted.progress) = Total
           /\ emitted.progress[Total].percent = 100

\* finished has been emitted at most once, exactly once when run has
\* returned, and a cancelled record is the last progress record
FinishedOnce ==
    /\ emitted.finished <= 1
    /\ worker.pc = "done" <=> emitted.finished = 1
    /\ emitted.finished = 1 =>
           /\ Len(emitted.progress) <= Total
           /\ \A i \in 1..Len(emitted.progress) :
                  emitted.progress[i].status = "cancelled" => i = Len(emitted.progress)

\* C18: every replace run (completed, cancelled, or over an empty list)
\* comes to emit finished, emits it exactly once, and emits nothing after it.
C18_FinishedOnce ==
    /\ []FinishedOnce
    /\ [][emitted.finished = 1 => emitted' = emitted]_vars
    /\ <>(emitted.finished = 1)

\* a cancelled run that has returned
C18_Witness ==
    /\ worker.pc = "done"
    /\ emitted.finished = 1
    /\ ~worker.is_running
    /\ Len(emitted.progress) > 0
    /\ emitted.progress[Len(emitted.progress)].status = "cancelled"

\* C20 (as stated): when the formatter fails for a file, the final content
\* is the content that entered the formatting step, and with no pattern the
\* file is not taken to the snapshot and write steps.
C20_FormatterFailureKeepsContent ==
    (worker.pc \in {"backup", "write"} /\ worker.format_error) =>
        /\ worker.final_content = worker.modified_content
        /\ worker.pattern

(* ======================= claims on the version store =================== *)

\* C26 (as stated): a snapshot that returns a failure leaves the backup slot
\* and the redo slot holding what they held before the call.
C26_FailedSnapshotKeepsSlots ==
    (Exists(last.snap) /\ ~Get(last.snap).ok) =>
        /\ Get(last.snap).bak = last.pre.bak
        /\ Get(last.snap).redo = last.pre.redo

\* C27 (as stated): a snapshot of a path that does not exist leaves the
\* backup slot as it was, whatever the redo slot held.
C27_MissingFileKeepsBackup ==
    (Exists(last.snap) /\ ~Exists(last.pre.disk)) =>
        Get(last.snap).bak = last.pre.bak

\* C28 (as stated): in every state the handlers can reach, failed ones
\* included, a file has a backup slot only if a handler has changed the
\* file's content at least once since both of its slots were absent (a
\* write of the content the file already holds is counted as a change).
C28_BackupImpliesChanged ==
    \A f \in Files : Exists(bak[f]) => altered[f]

\* C21 (as stated): a restore that succeeds leaves the target holding what
\* the chosen slot (the file's .bak or .redo) held when restore was invoked,
\* and the target's content of that moment in the redo slot.
C21_RestoreFromSlot ==
    (last.op = "restore" /\ last.result = "ok" /\ Exists(last.pre.disk)) =>
        /\ disk[last.file] = (IF Get(last.input) = "bak" THEN last.pre.bak
                              ELSE last.pre.redo)
        /\ redo[last.file] = last.pre.disk


LastSnap == Get(last.snap)
\* the slots a successful snapshot of an existing file must leave
Rotated(pre) == IF Exists(pre.redo) THEN pre.redo ELSE pre.bak

\* C1 (as stated): after a successful snapshot-and-write that took the file
\* from A to B (A # B), an undo request that meets no I/O error leaves the
\* file holding A and the redo slot holding B, whatever the version pair
\* held before the snapshot (no history included).
C1_UndoRestoresA ==
    (scen.stage \in {"undone", "refused"} /\ scen.n <= 1)
        => (disk[scen.file] = scen.A /\ redo[scen.file] = scen.B)

\* C2: after an undo that took the file from B back to A, a successful redo
\* leaves the file holding B and the backup slot holding A.
C2_RedoRestoresB ==
    (last.op = "redo" /\ last.result = "ok" /\ Exists(last.after)
        /\ Exists(Get(last.after).from))
        => (disk[last.file] = Get(last.after).from
            /\ bak[last.file] = Get(last.after).to)

C2_Witness ==
    /\ last.op = "redo" /\ last.result = "ok" /\ Exists(last.after)
    /\ Exists(Get(last.after).from)
    /\ Get(last.after).from # Get(last.after).to
    /\ disk[last.file] = Get(last.after).from

\* C3 (as stated): once a write A -> B has been undone and redone, every
\* further undo yields A, every following redo yields B, and neither A nor B
\* disappears from {file, backup slot, redo slot}.
C3_CycleRepeats ==
    scen.stage \in {"undone", "redone"} =>
        /\ scen.stage = "undone" => disk[scen.file] = scen.A
        /\ scen.stage = "redone" => disk[scen.file] = scen.B
        /\ scen.A \in {disk[scen.file], bak[scen.file], redo[scen.file]}
        /\ scen.B \in {disk[scen.file], bak[scen.file], redo[scen.file]}

\* C6: a snapshot of a path that does not exist on disk returns success (it
\* can only fail in path resolution or in the permission checks that guard
\* the rotation) and, when it returns success, the redo slot is absent,
\* whatever the pair held before.
C6_SnapshotMissingFile ==
    (Exists(last.snap) /\ ~Exists(last.pre.disk)) =>
        /\ LastSnap.err \in {"none", "path", "rotate"}
        /\ (~Exists(last.pre.redo) => LastSnap.err \in {"none", "path"})
        /\ LastSnap.ok => (LastSnap.redo = Absent /\ redo[last.file] = Absent)

C6_Witness ==
    /\ Exists(last.snap) /\ ~Exists(last.pre.disk)
    /\ Exists(last.pre.redo) /\ Exists(last.pre.bak)
    /\ LastSnap.ok /\ redo[last.file] = Absent

\* C7: a successful snapshot of an existing file with content C and prior
\* pair (b, r) leaves redo = C, and backup = r when r was present, backup = b
\* (possibly absent) when r was absent.
C7_SnapshotRotates ==
    (Exists(last.snap) /\ Exists(last.pre.disk) /\ LastSnap.ok) =>
        /\ LastSnap.redo = last.pre.disk
        /\ LastSnap.bak = Rotated(last.pre)

C7_Witness ==
    /\ Exists(last.snap) /\ Exists(last.pre.disk) /\ LastSnap.ok
    /\ Exists(last.pre.redo) /\ Exists(last.pre.bak)
    /\ last.pre.bak # last.pre.redo /\ last.pre.redo # last.pre.disk
    /\ LastSnap.bak = last.pre.redo /\ LastSnap.redo = last.pre.disk

Presence(b, r) ==
    IF ~Exists(b) /\ ~Exists(r) THEN "NoHistory"
    ELSE IF ~Exists(b) THEN "HasRedoOnly"
    ELSE IF Exists(r) THEN "HasBackupAndRedo"
    ELSE "HasBackupOnly"

AfterSnapshot(p) ==
    IF p = "NoHistory" THEN "HasRedoOnly" ELSE "HasBackupAndRedo"

MaxLines == 3
\* edits made to the target file outside the tool in one behaviour
MaxEdits == 1

\* In this part a file's content is the sequence of its lines.  The lines
\* are those of a module made of statements and of definitions, which may
\* be nested one level; each line stands for the text and its line ending.
DefF == "def f():"
DefG == "def g():"
Stmt == "x = 1"
BodyA == "    return 1"
BodyB == "    return 2"
InnerDefF == "    def f():"
InnerBody == "        return 1"
Alphabet == {DefF, Stmt, BodyA, BodyB}

SourceTexts(n) == UNION {[1..k -> Alphabet] : k \in 0..n}

\* what the formatter returns for the pasted snippets tried: a definition
\* of f with either body, a statement without a definition, and text that
\* does not parse
Snippets == {<<DefF, BodyA>>, <<DefF, BodyB>>, <<Stmt>>, <<BodyA>>}

\* the indentation level of a line
Indent(l) ==
    IF l \in {BodyA, BodyB, InnerDefF} THEN 1 ELSE IF l = InnerBody THEN 2 ELSE 0
DefName(l) == IF l \in {DefF, InnerDefF} THEN "f" ELSE IF l = DefG THEN "g" ELSE ""
IsDef(l) == DefName(l) # ""

\* ast.parse succeeds: the module starts at the margin, a block opens only
\* under a definition header and one level deeper, and every definition
\* header is followed by its body
Parses(code) ==
    \A i \in 1..Len(code) :
        /\ i = 1 => Indent(code[i]) = 0
        /\ (i > 1 /\ Indent(code[i]) > Indent(code[i-1]))
              => IsDef(code[i-1]) /\ Indent(code[i]) = Indent(code[i-1]) + 1
        /\ IsDef(code[i]) => i < Len(code) /\ Indent(code[i+1]) = Indent(code[i]) + 1

\* node.end_lineno of the definition whose header is line i (1-based)
end_lineno(code, i) ==
    CHOOSE j \in i..Len(code) :
        /\ \A k \in (i+1)..j : Indent(code[k]) > Indent(code[i])
        /\ j = Len(code) \/ Indent(code[j+1]) <= Indent(code[i])

MinOf(S) == CHOOSE x \in S : \A y \in S : x <= y

\* a FindFunctionOrClass just constructed
NewVisitor == [node |-> Absent, found |-> FALSE]

\* mutant: every matching definition is assigned, so the last one is kept
visit_definition_KeepLast(visitor, code, i, target_name) ==
    IF DefName(code[i]) = target_name
    THEN [node |-> Some(i), found |-> FALSE]
    ELSE visitor

\* FindFunctionOrClass._visit_definition up to its call of generic_visit:
\* the definition whose header is line i becomes the result when none was
\* found before and its name is the target
visit_definition(visitor, code, i, target_name) ==
    IF ~visitor.found /\ DefName(code[i]) = target_name
    THEN [node |-> Some(i), found |-> TRUE]
    ELSE visitor

\* NodeVisitor.visit over the statements of lines i..lim of one block, in
\* order: a definition goes through _visit_definition
\* and, while nothing is found, generic_visit descends into its body; any
\* other statement has no definition below it
RECURSIVE visit_body(_, _, _, _, _)
visit_body(visitor, code, i, lim, target_name) ==
    IF i > lim THEN visitor
    ELSE IF ~IsDef(code[i])
    THEN visit_body(visitor, code, i + 1, lim, target_name)
    ELSE LET seen == visit_definition(visitor, code, i, target_name)
             below == IF ~seen.found
                      THEN visit_body(seen, code, i + 1, end_lineno(code, i), target_name)
                      ELSE seen
         IN  visit_body(below, code, end_lineno(code, i) + 1, lim, target_name)

\* ast_utils.find_ast_node: parse, then run a new visitor over the module
find_ast_node(code, target_name) ==
    IF ~Parses(code) THEN [node |-> Absent, err |-> TRUE]
    ELSE LET visitor == visit_body(NewVisitor, code, 1, Len(code), target_name)
         IN  IF ~Exists(visitor.node) THEN [node |-> Absent, err |-> FALSE]
             ELSE [node |-> Some([name |-> target_name, lineno |-> Get(visitor.node),
                                  end_lineno |-> end_lineno(code, Get(visitor.node))]),
                   err |-> FALSE]

\* the ast.walk loop of preview_snippet_change: the name of the first
\* definition of the snippet, "" when it has none
first_definition_name(code) ==
    LET defs == {i \in 1..Len(code) : IsDef(code[i])}
    IN  IF defs = {} THEN "" ELSE DefName(code[MinOf(defs)])

\* Python's list slice lst[a:b], 0-based, clamped at both ends
Clamp(i, n) == IF i < 0 THEN (IF n + i < 0 THEN 0 ELSE n + i) ELSE IF i > n THEN n ELSE i
PySlice(lst, a, b) == SubSeq(lst, Clamp(a, Len(lst)) + 1, Clamp(b, Len(lst)))

\* mutant: the snippet is offered for apply although nothing differs
diff_lines_empty_Never(existing_block_lines, snippet_lines) == FALSE
\* "not diff_lines": difflib.unified_diff of the two line lists yields nothing
diff_lines_empty(existing_block_lines, snippet_lines) ==
    existing_block_lines = snippet_lines

\* mutant: the node's 1-based line number is stored as the start index
pending_patch_info_OneBased(file_path, start_line_index, end_line_index, snippet_lines, target_name) ==
    [file_path |-> file_path, start_line |-> start_line_index + 1,
     end_line |-> end_line_index, snippet_lines |-> snippet_lines,
     target_name |-> target_name]
\* the dictionary stored in self._pending_patch_info, line 1016
pending_patch_info(file_path, start_line_index, end_line_index, snippet_lines, target_name) ==
    [file_path |-> file_path, start_line |-> start_line_index,
     end_line |-> end_line_index, snippet_lines |-> snippet_lines,
     target_name |-> target_name]

\* what App.preview_snippet_change on the selected file leaves in the
\* pending slot.  empty: the editor holds only white space; (processed,
\* process_error) is what the formatter returns for the pasted snippet.
preview_outcome(empty, processed, process_error, fault) ==
    LET f == sel
        snippet_node == find_ast_node(processed, "")
        target_name == first_definition_name(processed)
        original_lines == Get(disk[f])
        target == find_ast_node(original_lines, target_name)
        start_line_index == Get(target.node).lineno - 1
        end_line_index == Get(target.node).end_lineno
        existing_block_lines == PySlice(original_lines, start_line_index, end_line_index)
        snippet_lines == processed
        result ==
            IF empty THEN "no_snippet"
            ELSE IF ~Exists(disk[f]) THEN "file_not_found"
            ELSE IF process_error THEN "format_error"
            ELSE IF snippet_node.err THEN "snippet_syntax"
            ELSE IF target_name = "" THEN "no_target"
            ELSE IF fault = "read" THEN "read_error"
            ELSE IF target.err THEN "target_syntax"
            ELSE IF ~Exists(target.node) THEN "target_not_found"
            ELSE IF start_line_index < 0 \/ end_line_index <= start_line_index
            THEN "line_error"
            ELSE IF start_line_index >= Len(original_lines)
                    \/ end_line_index > Len(original_lines)
            THEN "line_error"
            ELSE IF diff_lines_empty(existing_block_lines, snippet_lines) THEN "no_changes"
            ELSE "ready"
    IN  /\ pending' = IF result = "ready"
                      THEN Some(pending_patch_info(f, start_line_index, end_line_index,
                                                   snippet_lines, target_name))
                      ELSE clear_and_disable_on_selection_change
        /\ last' = [Rec("plan", f, result, NoSnap, disk[f], pending')
                        EXCEPT !.input = IF result \in {"no_snippet", "file_not_found",
                                                        "format_error"}
                                         THEN Absent ELSE Some(processed)]
        /\ scen' = IF result = "ready"
                   THEN [stage |-> "planned", file |-> f, A |-> Absent, B |-> Absent, n |-> 0]
                   ELSE NoScen

\* mutant: the preview takes a snapshot of the target file
preview_snippet_change_Snapshots(empty, processed, process_error, fault) ==
    LET snap == backup_and_redo(disk[sel], bak[sel], redo[sel], "none")
    IN  /\ preview_outcome(empty, processed, process_error, fault)
        /\ bak' = [bak EXCEPT ![sel] = snap.bak]
        /\ redo' = [redo EXCEPT ![sel] = snap.redo]
        /\ UNCHANGED <<disk, sel>>

\* App.preview_snippet_change: it reads the target file and writes nothing
preview_snippet_change(empty, processed, process_error, fault) ==
    /\ preview_outcome(empty, processed, process_error, fault)
    /\ UNCHANGED <<storeVars, sel>>

\* mutant: the stored indices are trusted
patch_index_error_Off(start_line, end_line, n) == FALSE
\* the bounds check of apply_snippet_patch on the stored indices, n the
\* number of lines just read
patch_index_error(start_line, end_line, n) ==
    start_line < 0 \/ end_line > n \/ start_line > end_line

\* mutant: the lines after the patched span are dropped
splice_DropTail(original_lines_with_ends, start_line, end_line, snippet_lines) ==
    PySlice(original_lines_with_ends, 0, start_line) \o snippet_lines
\* new_content of apply_snippet_patch as lines: the lines before the span,
\* the snippet lines (each with os.linesep), the lines after the span
splice(original_lines_with_ends, start_line, end_line, snippet_lines) ==
    LET lines_before == PySlice(original_lines_with_ends, 0, start_line)
        snippet_lines_with_os_nl == snippet_lines
        lines_after == PySlice(original_lines_with_ends, end_line,
                               Len(original_lines_with_ends))
    IN  lines_before \o snippet_lines_with_os_nl \o lines_after

\* mutant: a failed snapshot does not stop the apply
apply_result_IgnoreBackup(backup_ok, read_ok, index_error, write_ok) ==
    IF ~read_ok THEN "read_error"
    ELSE IF index_error THEN "index_error"
    ELSE IF ~write_ok THEN "write_error"
    ELSE "ok"
\* the exit apply_snippet_patch takes, its checks in the order of the code
apply_result(backup_ok, read_ok, index_error, write_ok) ==
    IF ~backup_ok THEN "backup_error"
    ELSE IF ~read_ok THEN "read_error"
    ELSE IF index_error THEN "index_error"
    ELSE IF ~write_ok THEN "write_error"
    ELSE "ok"

\* App.apply_snippet_patch: snapshot, re-read, bounds check, splice, write;
\* the finally clause empties the slot on every path that found a patch
apply_snippet_patch(fault) ==
    IF ~Exists(pending)
    THEN /\ last' = Rec("apply", sel, "no_pending", NoSnap, disk[sel], Absent)
         /\ scen' = IF scen.stage \in {"applied", "reapplied"}
                    THEN [scen EXCEPT !.stage = "reapplied"]
                    ELSE NoScen
         /\ UNCHANGED <<storeVars, sel, pending>>
    ELSE LET p == Get(pending)
             f == p.file_path
             snap == backup_and_redo(disk[f], bak[f], redo[f], fault)
             original_lines_with_ends == Get(disk[f])
             n == Len(original_lines_with_ends)
             new_content == splice(original_lines_with_ends, p.start_line,
                                   p.end_line, p.snippet_lines)
             result ==
                 apply_result(snap.ok, Exists(disk[f]) /\ fault # "read",
                              patch_index_error(p.start_line, p.end_line, n),
                              safe_write_file_ok(fault))
             after == IF result \in {"write_error", "ok"}
                      THEN safe_write_file(disk[f], new_content, fault, << >>)
                      ELSE disk[f]
         IN  /\ result \in {"write_error", "ok"} => Len(new_content) <= MaxLines
             /\ bak' = [bak EXCEPT ![f] = snap.bak]
             /\ redo' = [redo EXCEPT ![f] = snap.redo]
             /\ disk' = [disk EXCEPT ![f] = after]
             /\ pending' = clear_and_disable_on_selection_change
             /\ sel' = sel
             /\ last' = Rec("apply", f, result, Some(snap), after, pending)
             /\ scen' = [stage |-> "applied", file |-> f, A |-> Absent, B |-> Absent,
                         n |-> IF scen.stage = "edited" THEN 1 ELSE 0]

\* what an editor outside the tool makes of a file in one step: a statement
\* inserted before some line or at the end, or a line removed
LineEdits(lines) ==
    {PySlice(lines, 0, i) \o << Stmt >> \o PySlice(lines, i, Len(lines)) :
        i \in (IF Len(lines) < MaxLines THEN 0..Len(lines) ELSE {})}
    \cup {PySlice(lines, 0, i - 1) \o PySlice(lines, i, Len(lines)) : i \in 1..Len(lines)}

\* the target file is edited outside the tool while a patch is pending
ExternalEdit(t) ==
    /\ Exists(pending)
    /\ edits < MaxEdits
    /\ edits' = edits + 1
    /\ disk' = [disk EXCEPT ![sel] = Some(t)]
    /\ scen' = [stage |-> "edited", file |-> sel, A |-> Absent, B |-> Absent, n |-> 0]
    /\ UNCHANGED <<bak, redo, sel, pending, last, altered>>

PatchFaults == {"read", "write", "write_partial"}

\* the target file when the session starts: f alone, f after a statement,
\* f before a statement, no definition at all
TargetFiles == {<<DefF, BodyA>>, <<Stmt, DefF, BodyA>>, <<DefF, BodyA, Stmt>>, <<Stmt>>}

InitPatch ==
    /\ disk \in [{1} -> {Some(t) : t \in TargetFiles}]
    /\ bak = [f \in {1} |-> Absent]
    /\ redo = [f \in {1} |-> Absent]
    /\ sel = 1
    /\ pending = Absent
    /\ InitObs
    /\ worker = NoWorker /\ emitted = NoEmitted /\ batch = NoBatch
    /\ edits = 0 /\ altered = NoAltered
    /\ scanner = NoScanner /\ coord = NoCoord

PatchHandlers ==
    \/ \E empty \in BOOLEAN, processed \in Snippets \cup {<< >>},
          process_error \in BOOLEAN, fault \in {"none", "read"} :
          /\ empty => processed = << >> /\ ~process_error /\ fault = "none"
          /\ process_error => processed = << >> /\ fault = "none"
          /\ preview_snippet_change(empty, processed, process_error, fault)
    \/ \E fault \in {"none"} \cup SnapshotFaults \cup PatchFaults : apply_snippet_patch(fault)
    \/ \E f \in DOMAIN disk : on_tree_clicked(f)
    \/ ExternalDelete

NextPatch ==
    /\ \/ PatchHandlers /\ UNCHANGED envVars
       \/ /\ Exists(disk[sel])
          /\ \E t \in LineEdits(Get(disk[sel])) : ExternalEdit(t)
    /\ UNCHANGED <<replaceVars, threadVars>>

SpecPatch == InitPatch /\ [][NextPatch]_vars

\* the handlers that plan and apply patches together with the handlers that
\* change the selected file as a whole, on the target files of InitPatch
SlotHandlers ==
    \/ \E empty \in BOOLEAN, processed \in Snippets \cup {<< >>},
          process_error \in BOOLEAN, fault \in {"none", "read"} :
          /\ empty => processed = << >> /\ ~process_error /\ fault = "none"
          /\ process_error => processed = << >> /\ fault = "none"
          /\ preview_snippet_change(empty, processed, process_error, fault)
    \/ apply_snippet_patch("none")
    \/ \E c \in TargetFiles, keep \in BOOLEAN : apply_new_code(c, keep, "none")
    \/ \E fault \in {"none", "perm"} : undo_change(fault)
    \/ \E fault \in {"none", "perm"} : redo_change(fault)
    \/ \E source \in {"bak", "redo"}, confirm \in BOOLEAN, fault \in {"none", "perm"} :
          (confirm \/ fault = "none") /\ trigger_restore_from_source(source, confirm, fault)
    \/ \E f \in DOMAIN disk : on_tree_clicked(f)

NextSlot == SlotHandlers /\ UNCHANGED <<replaceVars, envVars, threadVars>>

SpecSlot == InitPatch /\ [][NextSlot]_vars

(* ======================= claims on the snippet patch =================== *)

\* the last handler run was an apply that found a pending patch
AppliedPatch == last.op = "apply" /\ last.result # "no_pending"

\* the span [start_line, end_line) of the patch is the span of the first
\* definition named target_name in content
HitsDefinition(patch, content) ==
    LET found == find_ast_node(content, patch.target_name)
    IN  /\ Exists(found.node)
        /\ Get(found.node).lineno - 1 = patch.start_line
        /\ Get(found.node).end_lineno = patch.end_line

\* C5: when the target file was modified between plan and apply and still
\* parses when apply reads it, an apply that does not fail has replaced
\* exactly the lines the named definition occupies in the content read at
\* apply time.
C5_ApplyHitsDefinition ==
    (/\ AppliedPatch /\ last.result = "ok"
     /\ scen.stage = "applied" /\ scen.n = 1
     /\ Parses(Get(last.pre.disk)))
        => HitsDefinition(Get(last.patch), Get(last.pre.disk))

\* C9: an apply that re-read the target file and found start_line < 0,
\* end_line beyond the number of lines read, or start_line > end_line fails
\* with the patch index error and leaves the file's content as it was.
C9_BadIndicesRejected ==
    (/\ AppliedPatch
     /\ last.result \notin {"backup_error", "read_error"}
     /\ LET p == Get(last.patch)
            n == Len(Get(last.pre.disk))
        IN  p.start_line < 0 \/ p.end_line > n \/ p.start_line > p.end_line)
        => /\ last.result = "index_error"
           /\ last.post = last.pre.disk
           /\ disk[last.file] = last.pre.disk

C9_Witness ==
    /\ AppliedPatch
    /\ last.result = "index_error"
    /\ Get(last.patch).end_line > Len(Get(last.pre.disk))
    /\ disk[last.file] = last.pre.disk

\* C10: after an apply that found a pending patch the slot is empty, and an
\* apply that follows it without a new plan takes no snapshot and writes
\* nothing.
C10_SlotEmptiedOnce ==
    /\ scen.stage = "applied" => pending = Absent
    /\ scen.stage = "reapplied" =>
          /\ last.op = "apply" /\ last.result = "no_pending"
          /\ last.snap = NoSnap
          /\ Pre(last.file) = last.pre

C10_Witness ==
    /\ scen.stage = "reapplied"
    /\ last.op = "apply" /\ last.result = "no_pending"
    /\ Exists(redo[last.file])

\* the plan that ran last located the first definition of its snippet in the
\* target file and found there, line by line, the lines of the snippet
SpanIsSnippet ==
    /\ last.op = "plan" /\ Exists(last.input) /\ Exists(last.pre.disk)
    /\ LET snippet_lines == Get(last.input)
           original_lines == Get(last.pre.disk)
           name == first_definition_name(snippet_lines)
           target == find_ast_node(original_lines, name)
       IN  /\ Parses(snippet_lines) /\ name # ""
           /\ Exists(target.node)
           /\ PySlice(original_lines, Get(target.node).lineno - 1,
                      Get(target.node).end_lineno) = snippet_lines

\* C11: when the located span of the target file is line by line the
\* formatted snippet, plan leaves no pending patch (apply stays unavailable)
\* and does not report a patch as ready.
C11_NoPatchWhenIdentical ==
    (SpanIsSnippet /\ scen.stage # "edited")
        => pending = Absent /\ last.result \in {"no_changes", "read_error"}

C11_Witness ==
    /\ SpanIsSnippet
    /\ last.result = "no_changes"
    /\ pending = Absent
    /\ Exists(redo[last.file])

\* C12: plan leaves the target file and its backup and redo slots as they
\* were, whatever its outcome.
C12_PlanFrame ==
    (last.op = "plan" /\ scen.stage # "edited")
        => \A f \in DOMAIN disk :
              f = last.file => Pre(f) = last.pre

C12_Witness ==
    /\ last.op = "plan" /\ last.result = "ready"
    /\ scen.stage = "planned"
    /\ Exists(bak[last.file]) /\ Exists(redo[last.file])
    /\ Pre(last.file) = last.pre

\* C23: a successful apply of the patch (start, end, replacement) to a file
\* read as lines L writes L[0:start], then the replacement lines, then
\* L[end:]; every line of L outside [start, end) is there unchanged, in order.
C23_SpliceFrame ==
    (AppliedPatch /\ last.result = "ok") =>
        LET L == Get(last.pre.disk)
            patch == Get(last.patch)
            written == Get(last.post)
            k == Len(patch.snippet_lines)
            shift == k - (patch.end_line - patch.start_line)
        IN  /\ Len(written) = Len(L) + shift
            /\ \A i \in 1..Len(written) :
                  written[i] = IF i <= patch.start_line THEN L[i]
                               ELSE IF i <= patch.start_line + k
                                    THEN patch.snippet_lines[i - patch.start_line]
                                    ELSE L[i - shift]

\* a patch applied to a file with lines after its span: the span is
\* replaced by other lines and the lines after it are kept
C23_Witness ==
    /\ AppliedPatch /\ last.result = "ok"
    /\ LET L == Get(last.pre.disk)
           patch == Get(last.patch)
       IN  /\ patch.end_line < Len(L)
           /\ Get(last.post) # L
           /\ PySlice(Get(last.post), patch.start_line + Len(patch.snippet_lines),
                      Len(Get(last.post))) = PySlice(L, patch.end_line, Len(L))

\* C24: an apply that finds a pending patch takes the snapshot before
\* anything else (its effect on the slots is there on every exit), and when
\* the snapshot fails the apply ends with the backup error, no write is
\* attempted and the file holds what it held.
C24_SnapshotFirst ==
    AppliedPatch =>
        /\ Exists(last.snap)
        /\ bak[last.file] = Get(last.snap).bak
        /\ redo[last.file] = Get(last.snap).redo
        /\ ~Get(last.snap).ok =>
              /\ last.result = "backup_error"
              /\ last.post = last.pre.disk
              /\ disk[last.file] = last.pre.disk

\* a snapshot that failed after a patch was planned for an existing file
C24_Witness ==
    /\ AppliedPatch /\ last.result = "backup_error"
    /\ ~Get(last.snap).ok
    /\ Exists(last.pre.disk)
    /\ Get(last.patch).snippet_lines
          # PySlice(Get(last.pre.disk), Get(last.patch).start_line,
                    Get(last.patch).end_line)
    /\ disk[last.file] = last.pre.disk

\* C25 (as stated): an apply that ends with the patch index error has
\* changed nothing: the file, its backup slot and its redo slot hold what
\* they held before the call.
C25_IndexErrorNoMutation ==
    (AppliedPatch /\ last.result = "index_error") =>
        /\ last.post = last.pre.disk
        /\ Get(last.snap).bak = last.pre.bak
        /\ Get(last.snap).redo = last.pre.redo

\* C35: every patch that plan stores has 0 <= start_line < end_line <= the
\* number of lines of the target file as plan read it, start_line being the
\* node's line number less one and end_line the node's end line number.
C35_PlannedRange ==
    (last.op = "plan" /\ Exists(last.patch)) =>
        LET code == Get(last.pre.disk)
            patch == Get(last.patch)
            target == find_ast_node(code, patch.target_name)
        IN  /\ 0 <= patch.start_line
            /\ patch.start_line < patch.end_line
            /\ patch.end_line <= Len(code)
            /\ Exists(target.node)
            /\ patch.start_line = Get(target.node).lineno - 1
            /\ patch.end_line = Get(target.node).end_lineno

\* a patch planned for a definition that starts after the first line and
\* ends with the file
C35_Witness ==
    /\ last.op = "plan" /\ last.result = "ready" /\ pending = last.patch
    /\ Get(last.patch).start_line > 0
    /\ Get(last.patch).end_line = Len(Get(last.pre.disk))

MaxFindLines == 4

FindAlphabet == {DefF, DefG, Stmt, BodyA, BodyB, InnerDefF, InnerBody}
FindTexts == UNION {[1..k -> FindAlphabet] : k \in 0..MaxFindLines}
TargetNames == {"f", "g", ""}

\* one call find_ast_node(code_string, target_name) on the text held by
\* file 1; a call with the arguments of the call before it is marked
find_call(target_name) ==
    LET code == Get(disk[1])
        res == find_ast_node(code, target_name)
        kind == IF res.err THEN "syntax" ELSE IF Exists(res.node) THEN "found" ELSE "none"
    IN  /\ last' = [Rec("find", 1, kind, NoSnap, disk[1], res.node)
                        EXCEPT !.input = Some(target_name)]
        /\ scen' = IF last.op = "find" /\ last.input = Some(target_name)
                   THEN [stage |-> "repeat", file |-> 1, A |-> last.patch,
                         B |-> Absent, n |-> 0]
                   ELSE NoScen
        /\ UNCHANGED <<storeVars, uiVars>>

InitFind ==
    /\ disk \in [{1} -> {Some(t) : t \in FindTexts}]
    /\ bak = [f \in {1} |-> Absent]
    /\ redo = [f \in {1} |-> Absent]
    /\ sel = 1
    /\ pending = Absent
    /\ InitObs
    /\ worker = NoWorker /\ emitted = NoEmitted /\ batch = NoBatch
    /\ edits = 0 /\ altered = NoAltered
    /\ scanner = NoScanner /\ coord = NoCoord

NextFind ==
    /\ \E target_name \in TargetNames : find_call(target_name)
    /\ UNCHANGED <<replaceVars, envVars, threadVars>>

SpecFind == InitFind /\ [][NextFind]_vars

\* the header lines of the definitions named target_name in code
DefinitionsNamed(code, target_name) ==
    {i \in 1..Len(code) : IsDef(code[i]) /\ DefName(code[i]) = target_name}

C34_FindTopLevelOnly ==
    (last.op = "find" /\ Parses(Get(last.pre.disk))) =>
        LET code == Get(last.pre.disk)
            hits == DefinitionsNamed(code, Get(last.input))
        IN  (hits # {} /\ \A i \in hits : Indent(code[i]) > 0)
                => last.result = "none" /\ last.patch = Absent

(* ================= utils.py: get_central_backup_paths ================== *)

\* the most components below the anchor in a tracked file's path
MaxDepth == 2

CODE_HELPER_BACKUP_DIR_NAME == ".code_helper_backups"

\* a path component: its stem and the suffixes that follow it
Name(stem, suffix) == [stem |-> stem, suffix |-> suffix]
PathNames == {Name(<<"a">>, << >>), Name(<<"b">>, << ".py" >>), Name(<<"C">>, << >>)}

\* an absolute path as pathlib holds it: the drive and the root as the
\* characters of their strings, then the components below the anchor
PosixPaths ==
    {[drive |-> << >>, root |-> <<"/">>, names |-> ns] :
        ns \in UNION {[1..n -> PathNames] : n \in 1..MaxDepth}}
WindowsPaths ==
    {[drive |-> <<"C", ":">>, root |-> <<"\\">>, names |-> ns] :
        ns \in UNION {[1..n -> PathNames] : n \in 1..MaxDepth}}
AbsolutePaths == PosixPaths \cup WindowsPaths

\* Path.anchor (a string) and Path.parts (a tuple that starts with the anchor)
anchor(path) == path.drive \o path.root
parts(path) == << anchor(path) >> \o path.names

\* tuple[k:] of Python
SliceFrom(t, k) == IF k >= Len(t) THEN << >> ELSE SubSeq(t, k + 1, Len(t))

\* str.replace(":", "")
RECURSIVE replace_colon(_)
replace_colon(str) ==
    IF str = << >> THEN << >>
    ELSE (IF Head(str) = ":" THEN << >> ELSE << Head(str) >>) \o replace_colon(Tail(str))

\* Path.with_suffix(Path.suffix + ext): the last component gets ext after
\* the suffixes it has
with_added_suffix(target, ext) ==
    LET leaf == target[Len(target)]
    IN  [target EXCEPT ![Len(target)] = Name(leaf.stem, Append(leaf.suffix, ext))]

NoPaths == [ok |-> FALSE, bak |-> << >>, redo |-> << >>]

get_central_backup_paths(original_file_path, fault) ==
    LET central_backup_dir ==
            << Name(<<"~">>, << >>), Name(<< CODE_HELPER_BACKUP_DIR_NAME >>, << >>) >>
        relative_parts ==
            SliceFrom(parts(original_file_path), Len(anchor(original_file_path)))
        sanitized_drive == replace_colon(original_file_path.drive)
        target_base_in_backup ==
            central_backup_dir
                \o (IF sanitized_drive # << >>
                    THEN << Name(sanitized_drive, << >>) >> ELSE << >>)
                \o relative_parts
    IN  IF ~get_central_backup_paths_ok(fault) THEN NoPaths
        ELSE [ok |-> TRUE,
              bak |-> with_added_suffix(target_base_in_backup, ".bak"),
              redo |-> with_added_suffix(target_base_in_backup, ".redo")]

\* one call of get_central_backup_paths; the call before it is kept beside
\* it. A process has one path flavour, so its calls share the root separator.
paths_call(original_file_path, fault) ==
    LET res == get_central_backup_paths(original_file_path, fault)
    IN  /\ last.op = "paths" => Get(last.input).root = original_file_path.root
        /\ last' = [Rec("paths", 1, IF res.ok THEN "ok" ELSE "path_error",
                        NoSnap, Absent, Some(res))
                        EXCEPT !.input = Some(original_file_path)]
        /\ scen' = IF last.op = "paths"
                   THEN [stage |-> "pair", file |-> 1, A |-> last.input,
                         B |-> last.patch, n |-> 0]
                   ELSE NoScen
        /\ UNCHANGED <<storeVars, uiVars>>

InitPaths ==
    /\ disk = [f \in {1} |-> Some(1)]
    /\ bak = [f \in {1} |-> Absent]
    /\ redo = [f \in {1} |-> Absent]
    /\ sel = 1
    /\ pending = Absent
    /\ InitObs
    /\ worker = NoWorker /\ emitted = NoEmitted /\ batch = NoBatch
    /\ edits = 0 /\ altered = NoAltered
    /\ scanner = NoScanner /\ coord = NoCoord

NextPaths ==
    /\ \E original_file_path \in AbsolutePaths, fault \in {"none", "path"} :
           paths_call(original_file_path, fault)
    /\ UNCHANGED <<replaceVars, envVars, threadVars>>

SpecPaths == InitPaths /\ [][NextPaths]_vars

\* C22 (as stated): two calls that both resolve, made for different absolute
\* paths (with or without a drive), never give the same backup path or the
\* same redo path; two calls for the same path give the same pair.
C22_PathsInjective ==
    (last.op = "paths" /\ scen.stage = "pair"
        /\ Get(last.patch).ok /\ Get(scen.B).ok) =>
        IF last.input = scen.A
        THEN last.patch = scen.B
        ELSE /\ Get(last.patch).bak # Get(scen.B).bak
             /\ Get(last.patch).redo # Get(scen.B).redo

(* ===================== threads.py: FileLoaderThread ==================== *)

\* the most items rglob yields in a scan
MaxItems == 3
\* what rglob("*.py") can yield: a readable file, a file that cannot be
\* read, a directory whose name matches
ItemKinds == {"file", "unreadable", "dir"}
Trees == UNION {[1..n -> ItemKinds] : n \in 0..MaxItems}

\* an error branch that forgets the result
EmitScanError_Silent ==
    [scanner EXCEPT !.pc = "done", !.errors = @ + 1]

\* self.error_occurred.emit(error_msg); self.files_loaded.emit([], ...)
EmitScanError ==
    [scanner EXCEPT !.pc = "done", !.errors = @ + 1, !.loaded = Append(@, << >>)]

\* run, lines 50-79: the root is checked and the iterator created
scan_start(fault) ==
    /\ scanner.pc = "start"
    /\ scanner' = IF fault \in {"not_dir", "start_error"} THEN EmitScanError
                  ELSE [scanner EXCEPT !.pc = "next"]

\* line 82, the for statement asks the iterator for its next item; an error
\* raised by the iterator lands in the except of line 116
iter_next(fault) ==
    /\ scanner.pc = "next"
    /\ scanner' = IF fault = "iter_error" THEN EmitScanError
                  ELSE IF scanner.pos = Len(scanner.tree)
                  THEN [scanner EXCEPT !.pc = "final"]
                  ELSE [scanner EXCEPT !.pc = "check", !.pos = @ + 1]

\* mutant: the loop does not look at the flag
loop_check_Ignore ==
    /\ scanner.pc = "check"
    /\ scanner' = [scanner EXCEPT !.pc = "body"]

\* lines 83-86: the cancellation check on the item just yielded
loop_check ==
    /\ scanner.pc = "check"
    /\ scanner' = IF ~scanner.is_running THEN [scanner EXCEPT !.pc = "final"]
                  ELSE [scanner EXCEPT !.pc = "body"]

\* lines 89-103: the item is accepted if it is a readable file; an error
\* while testing it is swallowed and the item skipped
loop_body(fault) ==
    /\ scanner.pc = "body"
    /\ scanner' =
          IF fault = "item_error"
          THEN [scanner EXCEPT !.pc = "next", !.item_errors = @ \cup {scanner.pos}]
          ELSE IF scanner.tree[scanner.pos] = "file"
          THEN [scanner EXCEPT !.pc = "next", !.files_found = Append(@, scanner.pos)]
          ELSE [scanner EXCEPT !.pc = "next"]

\* lines 107-114: the list is emitted, after a cancellation as after a
\* complete scan
scan_final ==
    /\ scanner.pc = "final"
    /\ scanner' = [scanner EXCEPT !.pc = "done", !.loaded = Append(@, scanner.files_found)]

\* FileLoaderThread.stop, called from the coordinator while the scan runs;
\* cancel_at observes where the scan was at that moment
scan_stop ==
    /\ scanner.pc \notin {"none", "done"}
    /\ scanner.is_running
    /\ scanner' = [scanner EXCEPT !.is_running = FALSE,
                                  !.cancel_at = Some([pos |-> scanner.pos, pc |-> scanner.pc])]

ScanRunSteps ==
    \/ \E fault \in {"none", "not_dir", "start_error"} : scan_start(fault)
    \/ \E fault \in {"none", "iter_error"} : iter_next(fault)
    \/ loop_check
    \/ \E fault \in {"none", "item_error"} : loop_body(fault)
    \/ scan_final

ScanFrame == UNCHANGED <<storeVars, uiVars, obsVars, replaceVars, envVars, coord>>

NextScan ==
    /\ \/ ScanRunSteps
       \/ scan_stop
    /\ ScanFrame

\* a scan thread constructed (line 41: _is_running = True) over a folder in
\* which rglob is going to yield the items of tree, in this order
InitScan ==
    /\ disk = [f \in Files |-> Some(1)]
    /\ bak = [f \in Files |-> Absent]
    /\ redo = [f \in Files |-> Absent]
    /\ sel = 1
    /\ pending = Absent
    /\ InitObs
    /\ worker = NoWorker /\ emitted = NoEmitted /\ batch = NoBatch
    /\ edits = 0 /\ altered = NoAltered
    /\ coord = NoCoord
    /\ \E tree \in Trees :
          scanner = [NoScanner EXCEPT !.pc = "start", !.is_running = TRUE, !.tree = tree]

SpecScan == InitScan /\ [][NextScan]_vars

\* the thread, once started, keeps being scheduled until run returns
SpecScanLive == SpecScan /\ WF_vars(ScanRunSteps /\ ScanFrame)

\* the accepted items among the first k that rglob yields, in discovery order
Accepted(k) ==
    LET IsAccepted(p) == scanner.tree[p] = "file" /\ p \notin scanner.item_errors
    IN  SelectSeq([p \in 1..k |-> p], IsAccepted)

\* the number of items the loop body gets to after a cancellation: the item
\* whose cancellation check comes next is not among them
ProcessedAtCancel ==
    LET at == Get(scanner.cancel_at)
    IN  IF at.pc = "check" THEN at.pos - 1 ELSE at.pos

ScanResultAfterCancel ==
    (scanner.pc = "done" /\ Exists(scanner.cancel_at) /\ scanner.errors = 0) =>
        /\ Len(scanner.loaded) = 1
        /\ scanner.loaded[1] = Accepted(ProcessedAtCancel)
        /\ Len(scanner.loaded[1]) <=
              Cardinality({p \in 1..Len(scanner.tree) : scanner.tree[p] = "file"})

ScanErrorPath == scanner.pc \in {"start", "next"} /\ scanner'.pc = "done"

\* C37: a scan run emits files_loaded exactly once on every path: nothing
\* before the run ends, one result when it has ended, and it ends; on the
\* error paths one error is emitted too and the result is the empty list,
\* and no error is emitted on the other paths.
C37_ScanEmitsOnce ==
    /\ [](/\ scanner.pc # "done" => scanner.loaded = << >> /\ scanner.errors = 0
          /\ scanner.pc = "done" => Len(scanner.loaded) = 1 /\ scanner.errors \in {0, 1}
          /\ scanner.errors = 1 => scanner.loaded = << << >> >>)
    /\ [][/\ ScanErrorPath => scanner'.errors = 1 /\ scanner'.loaded = << << >> >>
          /\ (scanner.pc = "final" /\ scanner'.pc = "done") => scanner'.errors = 0]_vars
    /\ <>(Len(scanner.loaded) = 1)

\* the iteration raised after the loop had accepted a file: one error, one
\* result, and the result is empty
C37_Witness ==
    /\ scanner.pc = "done"
    /\ scanner.errors = 1
    /\ scanner.files_found # << >>
    /\ scanner.loaded = << << >> >>

(* ================= app.py: the coordinator and its threads ============= *)

\* the most start-batch requests of a run
MaxRequests == 2
\* the lists a scan hands over: nothing found, or one file
ScanResults == {<< >>, << 1 >>}

\* coord.threads holds every thread object created, in creation order;
\* scan_thread and replace_thread are positions in it, 0 for None
Threads == DOMAIN coord.threads
\* QThread.isRunning() of the thread a field refers to
isRunning(t) == t # 0 /\ coord.threads[t].state = "running"
Running(kind) ==
    {t \in Threads : coord.threads[t].kind = kind /\ coord.threads[t].state = "running"}

\* result_of is, for a replace thread, the scan thread whose files_loaded
\* signal it was created for
NewThread(kind, files, started, result_of) ==
    [kind |-> kind, state |-> IF started THEN "running" ELSE "unstarted",
     is_running |-> TRUE, files |-> files, emitted |-> FALSE, result_of |-> result_of]

\* self.scan_btn.setEnabled(True); self.cancel_btn.setEnabled(False)
ButtonsIdle(c) == [c EXCEPT !.scan_btn = TRUE, !.cancel_btn = FALSE]

\* mutant: a new batch is started whatever is running
scan_and_run_NoGuard(has_folder, fault) ==
    /\ coord.requests < MaxRequests
    /\ coord.scan_btn
    /\ coord' =
          IF ~has_folder THEN [coord EXCEPT !.requests = @ + 1]
          ELSE [coord EXCEPT !.requests = @ + 1,
                             !.threads = Append(@, NewThread("scan", << >>, fault = "none", 0)),
                             !.scan_thread = Len(coord.threads) + 1,
                             !.replace_thread = 0,
                             !.scan_btn = fault # "none",
                             !.cancel_btn = fault = "none"]

\* App.scan_and_run, lines 730-753, the slot of the Scan & Run button, which
\* is clicked only while it is enabled: fault "start" is a thread that
\* cannot be started
scan_and_run(has_folder, fault) ==
    /\ coord.requests < MaxRequests
    /\ coord.scan_btn
    /\ coord' =
          IF ~has_folder THEN [coord EXCEPT !.requests = @ + 1]
          ELSE IF isRunning(coord.scan_thread) \/ isRunning(coord.replace_thread)
          THEN [coord EXCEPT !.requests = @ + 1, !.warned = @ + 1]
          ELSE [coord EXCEPT !.requests = @ + 1,
                             !.threads = Append(@, NewThread("scan", << >>, fault = "none", 0)),
                             !.scan_thread = Len(coord.threads) + 1,
                             !.replace_thread = 0,
                             !.scan_btn = fault # "none",
                             !.cancel_btn = fault = "none"]

\* App.run_replacement, lines 762-788, the slot of files_loaded; sender is
\* the scan thread that emitted the signal, which the slot does not look at
run_replacement(c, files, sender) ==
    IF c.scan_thread # 0 /\ ~c.threads[c.scan_thread].is_running
    THEN [c EXCEPT !.files = files]
    ELSE IF files = << >>
    THEN ButtonsIdle([c EXCEPT !.files = files])
    ELSE IF c.replace_thread # 0 /\ c.threads[c.replace_thread].state = "running"
    THEN ButtonsIdle([c EXCEPT !.files = files])
    ELSE [c EXCEPT !.files = files,
                   !.threads = Append(@, NewThread("replace", files, TRUE, sender)),
                   !.replace_thread = Len(c.threads) + 1]

\* App.scan_finished_or_cancelled, lines 755-760, the slot of a scan
\* thread's finished signal
scan_finished_or_cancelled(c) ==
    IF c.replace_thread # 0 /\ c.threads[c.replace_thread].state = "running"
    THEN c ELSE ButtonsIdle(c)

\* the main thread takes the next queued signal and runs its slot:
\* run_replacement for files_loaded, handle_thread_error (714-717) for
\* error_occurred, scan_finished_or_cancelled or replacement_finished
\* (820-830) for finished
deliver ==
    /\ coord.queue # << >>
    /\ LET signal == Head(coord.queue)
           taken == [coord EXCEPT !.queue = Tail(@)]
       IN  coord' = IF signal.name = "files_loaded"
                    THEN run_replacement(taken, signal.files, signal.from)
                    ELSE IF signal.name = "finished" /\ coord.threads[signal.from].kind = "scan"
                    THEN scan_finished_or_cancelled(taken)
                    ELSE ButtonsIdle(taken)

\* App.cancel_operation, lines 719-728
cancel_operation(c) ==
    LET stop_thread(t, threads) ==
            IF t # 0 /\ threads[t].state = "running"
            THEN [threads EXCEPT ![t].is_running = FALSE] ELSE threads
        stopped == stop_thread(c.replace_thread, stop_thread(c.scan_thread, c.threads))
    IN  [c EXCEPT !.threads = stopped,
                  !.cancel_btn = IF stopped # c.threads THEN FALSE ELSE @]

\* the slot of the Cancel button, which is clicked only while it is enabled
cancel_clicked ==
    /\ coord.cancel_btn
    /\ coord' = cancel_operation(coord)
    /\ coord' # coord

\* App.reset_ui_state, lines 673-675: cancel, then _perform_reset on a timer
reset_ui_state ==
    /\ coord' = [cancel_operation(coord) EXCEPT !.reset_pending = TRUE]
    /\ coord' # coord

\* App._perform_reset, lines 677-697, when the timer fires
perform_reset ==
    /\ coord.reset_pending
    /\ coord' = ButtonsIdle([coord EXCEPT !.reset_pending = FALSE, !.files = << >>])

\* a scan thread emits files_loaded (threads.py, lines 59-122), on an error
\* path after error_occurred; the signals are queued for the main thread
scan_emits(t, files, error) ==
    /\ t \in Running("scan")
    /\ ~coord.threads[t].emitted
    /\ error => files = << >>
    /\ LET error_occurred == [name |-> "error_occurred", from |-> t, files |-> << >>]
           files_loaded == [name |-> "files_loaded", from |-> t, files |-> files]
       IN  coord' = [coord EXCEPT !.threads[t].emitted = TRUE,
                                  !.queue = IF error THEN @ \o <<error_occurred, files_loaded>>
                                            ELSE Append(@, files_loaded)]

\* run returns: the thread stops running and its finished signal is queued
thread_returns(t) ==
    /\ t \in Threads
    /\ coord.threads[t].state = "running"
    /\ coord.threads[t].kind = "scan" => coord.threads[t].emitted
    /\ coord' = [coord EXCEPT !.threads[t].state = "finished",
                              !.queue = Append(@, [name |-> "finished", from |-> t,
                                                   files |-> << >>])]

CoordFrame == UNCHANGED <<storeVars, uiVars, obsVars, replaceVars, envVars, scanner>>

NextCoord ==
    /\ \/ \E has_folder \in BOOLEAN, fault \in {"none", "start"} :
             (has_folder \/ fault = "none") /\ scan_and_run(has_folder, fault)
       \/ deliver
       \/ cancel_clicked
       \/ reset_ui_state
       \/ perform_reset
       \/ \E t \in Threads, files \in ScanResults, error \in BOOLEAN :
             scan_emits(t, files, error)
       \/ \E t \in Threads : thread_returns(t)
    /\ CoordFrame

InitCoord ==
    /\ disk = [f \in Files |-> Some(1)]
    /\ bak = [f \in Files |-> Absent]
    /\ redo = [f \in Files |-> Absent]
    /\ sel = 1
    /\ pending = Absent
    /\ InitObs
    /\ worker = NoWorker /\ emitted = NoEmitted /\ batch = NoBatch
    /\ edits = 0 /\ altered = NoAltered
    /\ scanner = NoScanner
    /\ coord = NoCoord

SpecCoord == InitCoord /\ [][NextCoord]_vars

AtMostOneEach ==
    /\ Cardinality(Running("scan")) <= 1
    /\ Cardinality(Running("replace")) <= 1

\* C19: at most one scan thread and at most one replace thread is running
\* at any time, and a start-batch request made while one is running creates
\* no thread and leaves the threads, their file lists, the coordinator's
\* file list and its thread fields as they were.
C19_OneBatchAtATime ==
    /\ []AtMostOneEach
    /\ [][(coord'.requests # coord.requests
              /\ Running("scan") \cup Running("replace") # {}) =>
            /\ coord'.threads = coord.threads
            /\ coord'.files = coord.files
            /\ coord'.scan_thread = coord.scan_thread
            /\ coord'.replace_thread = coord.replace_thread
            /\ coord'.queue = coord.queue]_vars

\* a request was turned down while a replace thread was working on a list
C19_Witness ==
    /\ coord.warned >= 1
    /\ \E t \in Running("replace") : coord.threads[t].files # << >>
    /\ coord.files # << >>

\* C39: when the worker of a batch (the coordinator starts none for an
\* empty list) has finished and the coordinator's completion handler reports
\* cancellation, a cancelled progress record was emitted and at least one
\* file of the list was not processed.
C39_CancelledMeansStoppedEarly ==
    (Total > 0 /\ emitted.finished = 1 /\ replacement_finished = "cancelled") =>
        /\ CancelledAt # {}
        /\ worker.processed_count < Total

\* the step creates a replace thread
StartsReplace ==
    /\ Len(coord'.threads) = Len(coord.threads) + 1
    /\ coord'.threads[Len(coord'.threads)].kind = "replace"

\* C38: a replace thread is never started for the result of a scan that was
\* told to stop while it was running.
C38_CancelledScanStartsNothing ==
    [][StartsReplace =>
         coord.threads[coord'.threads[Len(coord'.threads)].result_of].is_running]_vars

====
